---------------------------- MODULE Spec2Model ----------------------------
(***************************************************************************)
(* A model of bft-json-crdt: signed, content-addressed operations routed   *)
(* by path through a tree of nested CRDT nodes (records, lists, LWW        *)
(* registers, primitives) behind the causal-delivery queue of BaseCrdt.    *)
(*                                                                         *)
(* Modelling conventions                                                   *)
(*  - SHA-256 is collision free: an OpId is the tuple of the fields that   *)
(*    hash_to_id feeds to the hash; ROOT_ID (32 zero bytes) is <<>>.       *)
(*  - Ed25519 is unforgeable: a signature is the pair <<key, digest>> and  *)
(*    verifies under exactly that key and digest.                          *)
(*  - A 32-byte author id is a one-element tuple <<n>>; byte-lexicographic *)
(*    order is the order of n.  (Nested CRDTs built by node_from receive   *)
(*    an OpId where an AuthorId is expected, so an author can also be a    *)
(*    five-element OpId tuple.)                                            *)
(*  - A string is a sequence of one-letter strings, so that taking its     *)
(*    first char is a real projection.                                     *)
(*  - Option<T> is <<>> (None) or <<x>> (Some(x)).                         *)
(*  - A panic is the status "Panic"; the replica that panics halts.        *)
(*  - Five specifications share the definitions: Spec (a BaseCrdt replica  *)
(*    and the envelopes delivered to it), SpecReg (one LwwRegisterCrdt),   *)
(*    SpecList (two ListCrdt replicas that exchange their ops), SpecNode   *)
(*    (one node of any kind, its local calls and its apply) and SpecMap    *)
(*    (three MapCRDT replicas that exchange their ops).                    *)
(***************************************************************************)
EXTENDS Integers, Sequences, FiniteSets, TLC

VARIABLES
    base,              \* the BaseCrdt replica: [doc, received, message_q]
    hist,              \* envelopes passed to BaseCrdt::apply, in call order
    results,           \* the OpState each of those calls returned
    applied,           \* inner ops handed to doc.apply, in order (signed digest, id, status)
    halted,            \* TRUE once an apply call panicked
    overflow_checks,   \* build profile: TRUE = arithmetic overflow panics, FALSE = it wraps
    reg,               \* a stand-alone LwwRegisterCrdt (SpecReg)
    reg_hist,          \* ops passed to that register's apply, in call order
    lists,             \* two stand-alone ListCrdt<char> replicas, by peer (SpecList)
    net,               \* the ops those replicas produced with insert and delete
    forged,            \* the ops a byzantine peer built with Op::new
    seen,              \* by peer, the set of ops its list's apply was called with
    deferred,          \* by peer, those of them that got MissingCausalDependencies
    crdt,              \* one CRDT node of a replica, on its own (SpecNode)
    calls,             \* the calls made on it: [call, op, status], in call order
    maps,              \* stand-alone MapCRDT<char> replicas, by replica (SpecMap)
    map_ops,           \* the ops those replicas produced with set and delete
    map_got            \* by replica, the set of ops its map's apply was called with

vars ==
    <<base, hist, results, applied, halted, overflow_checks, reg, reg_hist,
      lists, net, forged, seen, deferred, crdt, calls, maps, map_ops,
      map_got>>

listVars == <<lists, net, forged, seen, deferred>>

nodeVars == <<crdt, calls>>

mapVars == <<maps, map_ops, map_got>>

---------------------------------------------------------------------------
(* Option *)

None == <<>>

Some(x) == <<x>>

IsSome(o) == Len(o) = 1

IsNone(o) == Len(o) = 0

Unwrap(o) == o[1]

Max(a, b) == IF a >= b THEN a ELSE b

Last(q) == q[Len(q)]

Range(q) == {q[i] : i \in 1..Len(q)}

---------------------------------------------------------------------------
(* keypair.rs, op.rs: identifiers *)

ROOT_ID == <<>>

\* make_author(n): a public key whose first byte is n
make_author(n) == <<n>>

ZeroAuthor == <<0>>

\* byte-lexicographic "<" on [u8; 32].  A public key is <<n>>, ordered by n.
\* An OpId used as an author (see Into) is a SHA-256 value: the only such
\* comparison the behaviours below evaluate is of an OpId with itself, which
\* is FALSE whatever the bytes are.
AuthorLess(a, b) ==
    IF Len(a) = 1 /\ Len(b) = 1 THEN a[1] < b[1]
    ELSE IF Len(a) = 1 THEN TRUE
    ELSE FALSE

AuthorGreater(a, b) == AuthorLess(b, a)

---------------------------------------------------------------------------
(* json_crdt.rs: Value *)

Null == <<"Null">>

VBool(b) == <<"Bool", b>>

VNumber(n) == <<"Number", n>>

VString(s) == <<"String", s>>

VArray(arr) == <<"Array", arr>>

\* Object(HashMap<String, Value>): a function from the key set to values
VObject(obj) == <<"Object", obj>>

---------------------------------------------------------------------------
(* op.rs: paths *)

Field(s) == <<"Field", s>>

Index(id) == <<"Index", id>>

join_path(path, segment) == Append(path, segment)

\* a 32-byte value that has the first three bytes of id and differs from it
\* in a later byte.  (A PathSegment::Index holds any [u8; 32]; nothing
\* requires it to be the hash of an op.)
SameHex6(id) == <<"tail", id>>

\* print_hex(i)[..6]: the first three bytes of an id, in hex.  The ids that
\* occur below as hashes are taken to differ in their first three bytes;
\* ROOT_ID prints as six zeros.
Hex6(id) ==
    IF id = ROOT_ID THEN <<"000000">>
    ELSE IF Len(id) = 2 THEN <<"hex6", id[2]>>
    ELSE <<"hex6", id>>

\* print_path: the segment kind is not printed, segments are joined by "."
print_path(path) ==
    [i \in 1..Len(path) |->
        IF path[i][1] = "Field" THEN <<path[i][2]>> ELSE Hex6(path[i][2])]

ensure_subpath(our_path, op_path) ==
    /\ Len(our_path) <= Len(op_path)
    /\ \A i \in 1..Len(our_path) : our_path[i] = op_path[i]

---------------------------------------------------------------------------
(* op.rs: Op<T> *)

\* Hashable for T: Debug.  The derived Debug of Value prints the variant and
\* its payload, so distinct values print differently; a char prints as 'c'.
HashValue(v) == v

HashChar(c) == <<"char", c>>

\* hash_to_id over an already formatted content string ("" for None)
HashFields(origin, author, seq, is_deleted, content_str) ==
    <<origin, author, seq, is_deleted, content_str>>

\* Op<Value>::hash_to_id
hash_to_id(op) ==
    HashFields(op.origin, op.author, op.seq, op.is_deleted,
               IF IsSome(op.content) THEN HashValue(Unwrap(op.content)) ELSE <<>>)

MkOp(origin, author, seq, is_deleted, content, path, id) ==
    [origin |-> origin, author |-> author, seq |-> seq, content |-> content,
     path |-> path, is_deleted |-> is_deleted, id |-> id]

\* Op::new
OpNew(origin, author, seq, is_deleted, content, path) ==
    LET op == MkOp(origin, author, seq, is_deleted, content, path, ROOT_ID)
    IN  [op EXCEPT !.id = hash_to_id(op)]

is_valid_hash(op) ==
    IF IsNone(op.content) /\ ~op.is_deleted THEN FALSE
    ELSE hash_to_id(op) = op.id

make_root == MkOp(ROOT_ID, ZeroAuthor, 0, FALSE, None, <<>>, ROOT_ID)

---------------------------------------------------------------------------
(* Node types.  A Rust type T: CrdtNode is a descriptor here, and a node    *)
(* carries the descriptor of its generic parameter.                         *)

TBool == <<"bool">>

TChar == <<"char">>

TF64 == <<"f64">>

TString == <<"String">>

TValue == <<"Value">>

TReg(t) == <<"reg", t>>

TList(t) == <<"list", t>>

\* a derived record: fields is a sequence of <<name, type>>
TStruct(fields) == <<"struct", fields>>

FieldNames(t) == {t[2][i][1] : i \in 1..Len(t[2])}

FieldType(t, name) == t[2][CHOOSE i \in 1..Len(t[2]) : t[2][i][1] = name][2]

Ok(x) == <<"Ok", x>>

Err == <<"Err">>

Panic == <<"Panic">>

St(node, status) == [node |-> node, status |-> status]

\* Default::default() of a primitive
PrimDefault(t) ==
    CASE t = TBool -> FALSE
      [] t = TChar -> "\\0"
      [] t = TF64 -> 0
      [] t = TString -> <<>>
      [] OTHER -> Null

PrimNode(t, v) == [k |-> "prim", t |-> t, v |-> v]

\* Into<Value> of a primitive
PrimView(n) ==
    CASE n.t = TBool -> VBool(n.v)
      [] n.t = TChar -> VString(<<n.v>>)
      [] n.t = TF64 -> VNumber(n.v)
      [] n.t = TString -> VString(n.v)
      [] OTHER -> n.v

\* SequenceNumber is u64.  The model keeps the wrap-around of the type at a
\* scaled width: SeqMax stands for u64::MAX.
SeqMax == 15

\* our_seq + 1 in u64 as a build without overflow checks computes it; a
\* build with overflow checks panics where this wraps (LocalOutcomes)
seq_add1(s) == (s + 1) % (SeqMax + 1)

\* HashMap<K, Vec<V>>
EmptyQ == [x \in {} |-> <<>>]

\* entry(key).or_default().push(v)
QPush(mq, key, v) ==
    [x \in DOMAIN mq \cup {key} |->
        IF x = key
        THEN Append(IF key \in DOMAIN mq THEN mq[key] ELSE <<>>, v)
        ELSE mq[x]]

\* remove(key): the map without the key
QRemove(mq, key) == [x \in DOMAIN mq \ {key} |-> mq[x]]

\* what remove(key) returned, <<>> standing for None
QTake(mq, key) == IF key \in DOMAIN mq THEN mq[key] ELSE <<>>

RECURSIVE QSizeOf(_, _)
\* the number of entries parked in queue mq under the keys ks
QSizeOf(mq, ks) ==
    IF ks = {} THEN 0
    ELSE LET k == CHOOSE x \in ks : TRUE
         IN  Len(mq[k]) + QSizeOf(mq, ks \ {k})

QSize(mq) == QSizeOf(mq, DOMAIN mq)

\* Vec::insert(i, x), i counted from 1 here
InsertAt(s, i, x) == SubSeq(s, 1, i - 1) \o <<x>> \o SubSeq(s, i, Len(s))

\* ListCrdt::find_idx, positions counted from 1; 0 stands for None
find_idx(ops, id) ==
    IF \E i \in 1..Len(ops) : ops[i].id = id
    THEN CHOOSE i \in 1..Len(ops) :
            /\ ops[i].id = id
            /\ \A j \in 1..(i - 1) : ops[j].id # id
    ELSE 0

RECURSIVE Apply(_, _)
RECURSIVE NodeFrom(_, _, _, _)
RECURSIVE New(_, _, _)
RECURSIVE View(_)
RECURSIVE Integrate(_, _)
RECURSIVE IntegrateAll(_, _)
RECURSIVE InsertIdxAll(_, _, _)
RECURSIVE StructFromFields(_, _, _, _, _)
RECURSIVE Scan(_, _, _, _)
RECURSIVE ViewOps(_, _)

\* Op<Value>::into<T>: the content becomes a node of type t, built with the
\* op's id in the place of the author id; a failed conversion leaves None.
\* <<"Ok", op>> or Panic.
IntoContent(op, r) ==
    CASE r[1] = "Ok" -> Ok([op EXCEPT !.content = Some(r[2])])
      [] r[1] = "Err" -> Ok([op EXCEPT !.content = None])
      [] OTHER -> Panic

Into(t, op) ==
    IF IsSome(op.content)
    THEN IntoContent(op, NodeFrom(t, Unwrap(op.content), op.id, op.path))
    ELSE Ok(op)

---------------------------------------------------------------------------
(* lww_crdt.rs *)

LwwNew(t, id, path) ==
    [k |-> "reg", t |-> t, our_id |-> id, path |-> path,
     value |-> make_root, our_seq |-> 0]

\* a tie-break that keeps the higher author
LwwTakesHigherAuthor(seq, author, our_seq, our_author) ==
    \/ seq > our_seq
    \/ seq = our_seq /\ AuthorGreater(author, our_author)

\* the comparison of LwwRegisterCrdt::apply: TRUE = the op replaces our value
LwwTakes(seq, author, our_seq, our_author) ==
    \/ seq > our_seq
    \/ seq = our_seq /\ AuthorLess(author, our_author)

\* the body of apply once the op is converted: o is the Op<T>
LwwReplace(r, o) ==
    St([r EXCEPT
          !.value = IF LwwTakes(o.seq, o.author, r.our_seq, r.value.author)
                    THEN [o EXCEPT !.id = r.value.id] ELSE r.value,
          !.our_seq = Max(r.our_seq, o.seq)],
       "Ok")

\* c is the result of op.into()
LwwApplyInto(r, c) == IF c = Panic THEN St(r, "Panic") ELSE LwwReplace(r, c[2])

LwwApply(r, op) ==
    IF ~is_valid_hash(op) THEN St(r, "ErrHashMismatch")
    ELSE LwwApplyInto(r, Into(r.t, op))

\* op.path = join_path(op.path, Index(op.id)) of set and insert
WithIndexPath(op) == [op EXCEPT !.path = join_path(@, Index(op.id))]

\* what a local mutation leaves: the node after self.apply(op), the op it
\* returns and the status of that apply
Mutation(op, res) == [node |-> res.node, op |-> op, status |-> res.status]

\* self.apply(op.clone()) of set, insert and delete
ApplyLocal(n, op) == Mutation(op, Apply(n, op))

\* LwwRegisterCrdt::set: [node, op, status]
LwwSet(r, content) ==
    ApplyLocal(r, WithIndexPath(OpNew(r.value.id, r.our_id, seq_add1(r.our_seq),
                                      FALSE, Some(content), r.path)))

LwwView(r) == IF IsSome(r.value.content) THEN View(Unwrap(r.value.content)) ELSE Null

---------------------------------------------------------------------------
(* list_crdt.rs *)

ListNew(t, id, path) ==
    [k |-> "list", t |-> t, our_id |-> id, path |-> path,
     ops |-> <<make_root>>, message_q |-> EmptyQ, our_seq |-> 0]

\* a sibling comparison without the tie-break on the author
SiblingBeforeSeqOnly(new_op, e) == new_op.seq > e.seq

\* a sibling comparison whose tie-break puts the lower author first
SiblingBeforeLowerAuthor(new_op, e) ==
    \/ new_op.seq > e.seq
    \/ new_op.seq = e.seq /\ AuthorLess(new_op.author, e.author)

\* the sibling comparison of integrate: TRUE = the new op goes before op e
SiblingBefore(new_op, e) ==
    \/ new_op.seq > e.seq
    \/ new_op.seq = e.seq /\ AuthorGreater(new_op.author, e.author)

RECURSIVE ScanNoDup(_, _, _, _)

\* the scan without its return on an op that is already in the list
ScanNoDup(ops, new_op, p, i) ==
    IF i > Len(ops) THEN <<"at", i>>
    ELSE LET e == ops[i]
             q == find_idx(ops, e.origin)
         IN  IF q = 0 THEN Panic
             ELSE IF p > q THEN <<"at", i>>
             ELSE IF p = q /\ SiblingBefore(new_op, e) THEN <<"at", i>>
             ELSE ScanNoDup(ops, new_op, p, i + 1)

\* the while loop of integrate from position i (the parent is at p):
\* <<"dup">> on the idempotency return, <<"at", i>> for the insertion point,
\* Panic when find_idx(op.origin).unwrap() fails
Scan(ops, new_op, p, i) ==
    IF i > Len(ops) THEN <<"at", i>>
    ELSE LET e == ops[i]
             q == find_idx(ops, e.origin)
         IN  IF q = 0 THEN Panic
             ELSE IF e.id = new_op.id THEN <<"dup">>
             ELSE IF p > q THEN <<"at", i>>
             ELSE IF p = q /\ SiblingBefore(new_op, e) THEN <<"at", i>>
             ELSE Scan(ops, new_op, p, i + 1)

\* for dependent in q.drain(..) { self.integrate(dependent); }
IntegrateRest(r, q) ==
    IF r.status = "Panic" THEN r ELSE IntegrateAll(r.node, q)

IntegrateAll(l, q) ==
    IF Len(q) = 0 THEN St(l, "Ok")
    ELSE IntegrateRest(Integrate(l, Head(q)), Tail(q))

\* integrate returns nothing: the statuses of the dependents are dropped
IntegrateDone(r) == IF r.status = "Panic" THEN r ELSE St(r.node, "Ok")

\* an end of integrate that leaves the waiting ops in the queue
IntegrateAtNoRelease(l, new_op, at) ==
    CASE at = Panic -> St(l, "Panic")
      [] at[1] = "dup" -> St(l, "Ok")
      [] OTHER -> St([l EXCEPT !.ops = InsertAt(@, at[2], new_op),
                               !.our_seq = Max(@, new_op.seq)], "Ok")

\* the end of integrate: insert at the point the scan found, then release
\* the ops that waited for this one
IntegrateAt(l, new_op, at) ==
    CASE at = Panic -> St(l, "Panic")
      [] at[1] = "dup" -> St(l, "Ok")
      [] OTHER ->
         IntegrateDone(IntegrateAll([l EXCEPT
                                       !.ops = InsertAt(@, at[2], new_op),
                                       !.our_seq = Max(@, new_op.seq),
                                       !.message_q = QRemove(@, new_op.id)],
                                    QTake(l.message_q, new_op.id)))

\* an integrate that drops an insert whose origin is deleted
IntegrateFromSkipDeleted(l, new_op, p) ==
    IF p = 0
    THEN St([l EXCEPT !.message_q = QPush(@, new_op.origin, new_op)],
            "MissingCausalDependencies")
    ELSE IF new_op.is_deleted
    THEN St([l EXCEPT !.ops[p].is_deleted = TRUE], "Ok")
    ELSE IF l.ops[p].is_deleted THEN St(l, "Ok")
    ELSE IntegrateAt(l, new_op, Scan(l.ops, new_op, p, p + 1))

\* an integrate that starts its scan at the origin itself
IntegrateFromAtOrigin(l, new_op, p) ==
    IF p = 0
    THEN St([l EXCEPT !.message_q = QPush(@, new_op.origin, new_op)],
            "MissingCausalDependencies")
    ELSE IF new_op.is_deleted
    THEN St([l EXCEPT !.ops[p].is_deleted = TRUE], "Ok")
    ELSE IntegrateAt(l, new_op, Scan(l.ops, new_op, p, p))

\* p is find_idx(new_op.origin)
IntegrateFrom(l, new_op, p) ==
    IF p = 0
    THEN St([l EXCEPT !.message_q = QPush(@, new_op.origin, new_op)],
            "MissingCausalDependencies")
    ELSE IF new_op.is_deleted
    THEN St([l EXCEPT !.ops[p].is_deleted = TRUE], "Ok")
    ELSE IntegrateAt(l, new_op, Scan(l.ops, new_op, p, p + 1))

Integrate(l, new_op) == IntegrateFrom(l, new_op, find_idx(l.ops, new_op.origin))

\* an element that shows again once its content handled an op
ListPutChildRevived(l, idx, r) ==
    St([l EXCEPT !.ops[idx].content = Some(r.node),
                 !.ops[idx].is_deleted = FALSE], r.status)

\* the element at idx after its content handled the op (r)
ListPutChild(l, idx, r) ==
    St([l EXCEPT !.ops[idx].content = Some(r.node)], r.status)

\* a nested branch that parks the op for an element the list does not hold
ListApplyChildParking(l, op, idx) ==
    IF idx = 0
    THEN St([l EXCEPT !.message_q = QPush(@, op.path[Len(l.path) + 1][2], op)],
            "MissingCausalDependencies")
    ELSE IF IsNone(l.ops[idx].content) THEN St(l, "ErrListApplyToEmpty")
    ELSE ListPutChild(l, idx, Apply(Unwrap(l.ops[idx].content), op))

\* the nested branch of apply: idx is find_idx of the next path segment
ListApplyChild(l, op, idx) ==
    IF idx = 0 THEN St(l, "ErrPathMismatch")
    ELSE IF IsNone(l.ops[idx].content) THEN St(l, "ErrListApplyToEmpty")
    ELSE ListPutChild(l, idx, Apply(Unwrap(l.ops[idx].content), op))

\* self.integrate(op.into()); c is the result of op.into()
ListIntegrateInto(l, c) ==
    IF c = Panic THEN St(l, "Panic") ELSE Integrate(l, c[2])

\* op.path.len() - 1 > self.path.len() in usize: with an empty op path the
\* subtraction overflows.  Under overflow checks that is a panic; without
\* them it wraps to usize::MAX, op.path.get(..) is None and the result is
\* ErrPathMismatch.  The list is left as it was either way; the status
\* "SubOverflow" stands for the two outcomes until OnProfile settles it.
ListApply(l, op) ==
    IF ~is_valid_hash(op) THEN St(l, "ErrHashMismatch")
    ELSE IF ~ensure_subpath(l.path, op.path) THEN St(l, "ErrPathMismatch")
    ELSE IF Len(op.path) = 0 THEN St(l, "SubOverflow")
    ELSE IF Len(op.path) - 1 > Len(l.path)
    THEN IF op.path[Len(l.path) + 1][1] = "Index"
         THEN ListApplyChild(l, op, find_idx(l.ops, op.path[Len(l.path) + 1][2]))
         ELSE St(l, "ErrPathMismatch")
    ELSE ListIntegrateInto(l, Into(l.t, op))

\* ListCrdt::insert: [node, op, status]
ListInsert(l, after, content) ==
    ApplyLocal(l, WithIndexPath(OpNew(after, l.our_id, seq_add1(l.our_seq),
                                      FALSE, Some(content), l.path)))

\* positions of the ops that are not deleted
LiveIdx(ops) == {i \in 1..Len(ops) : ~ops[i].is_deleted}

\* the position of the idx-th op that is not deleted (idx from 0), 0 if none
NthLive(ops, idx) ==
    IF \E i \in LiveIdx(ops) : Cardinality({j \in LiveIdx(ops) : j < i}) = idx
    THEN CHOOSE i \in LiveIdx(ops) : Cardinality({j \in LiveIdx(ops) : j < i}) = idx
    ELSE 0

\* ListCrdt::insert_idx: panics when idx is out of range
ListInsertIdx(l, idx, content) ==
    LET i == NthLive(l.ops, idx)
    IN  IF i = 0 THEN [node |-> l, op |-> make_root, status |-> "Panic"]
        ELSE ListInsert(l, l.ops[i].id, content)

\* ListCrdt::id_at
id_at(l, idx) ==
    LET i == NthLive(l.ops, idx)
    IN  IF i = 0 THEN None ELSE Some(l.ops[i].id)

\* ListCrdt::delete: [node, op, status]
ListDelete(l, id) ==
    ApplyLocal(l, OpNew(id, l.our_id, seq_add1(l.our_seq), TRUE, None,
                        join_path(l.path, Index(id))))

\* iter(): the contents of the ops that are not deleted and have content
ViewOps(ops, i) ==
    IF i > Len(ops) THEN <<>>
    ELSE IF ~ops[i].is_deleted /\ IsSome(ops[i].content)
    THEN <<View(Unwrap(ops[i].content))>> \o ViewOps(ops, i + 1)
    ELSE ViewOps(ops, i + 1)

ListView(l) == VArray(ViewOps(l.ops, 1))

---------------------------------------------------------------------------
(* bft-crdt-derive: the CrdtNode and CrdtNodeFromValue of a record *)

StructNew(t, id, path) ==
    [k |-> "struct", t |-> t, id |-> id, path |-> path,
     fields |-> [f \in FieldNames(t) |->
                    New(FieldType(t, f), id, join_path(path, Field(f)))]]

\* a record that builds its other fields anew when one field handles an op
StructPutFieldAlone(n, name, r) ==
    St([n EXCEPT !.fields =
           [f \in FieldNames(n.t) |->
               IF f = name THEN r.node
               ELSE New(FieldType(n.t, f), n.id, join_path(n.path, Field(f)))]],
       r.status)

\* the record after its field handled the op (r)
StructPutField(n, name, r) == St([n EXCEPT !.fields[name] = r.node], r.status)

\* a match that lets an op for an unknown field pass
StructApplyFieldLenient(n, op, seg) ==
    IF seg[1] = "Field" /\ seg[2] \in FieldNames(n.t)
    THEN StructPutField(n, seg[2], Apply(n.fields[seg[2]], op))
    ELSE St(n, "Ok")

\* the match on the path segment that follows the record's own path
StructApplyField(n, op, seg) ==
    IF seg[1] = "Field" /\ seg[2] \in FieldNames(n.t)
    THEN StructPutField(n, seg[2], Apply(n.fields[seg[2]], op))
    ELSE St(n, "ErrPathMismatch")

StructApply(n, op) ==
    IF ~ensure_subpath(n.path, op.path) THEN St(n, "ErrPathMismatch")
    ELSE IF Len(n.path) = Len(op.path) THEN St(n, "ErrApplyOnStruct")
    ELSE StructApplyField(n, op, op.path[Len(n.path) + 1])

StructView(n) == VObject([f \in FieldNames(n.t) |-> View(n.fields[f])])

\* the field initialisers of node_from, field i onwards:
\* obj.remove(name).unwrap().into_node(id, path + Field(name)).unwrap()
\* field name initialised from r, the other fields from rest; unwrap()
\* panics on a failed conversion
StructJoin(name, r, rest) ==
    IF r[1] # "Ok" \/ rest[1] # "Ok" THEN Panic
    ELSE Ok([f \in DOMAIN rest[2] \cup {name} |->
                IF f = name THEN r[2] ELSE rest[2][f]])

StructFromFields(t, obj, id, path, i) ==
    IF i > Len(t[2]) THEN Ok([f \in {} |-> Null])
    ELSE IF t[2][i][1] \notin DOMAIN obj THEN Panic
    ELSE StructJoin(t[2][i][1],
                    NodeFrom(t[2][i][2], obj[t[2][i][1]], id,
                             join_path(path, Field(t[2][i][1]))),
                    StructFromFields(t, obj, id, path, i + 1))

---------------------------------------------------------------------------
(* json_crdt.rs: CrdtNode and CrdtNodeFromValue *)

\* crdt.insert_idx(i, val) for the elements of an array, element i onwards
InsertIdxRest(l, r, arr, i) ==
    IF r.status = "Panic" THEN St(l, "Panic") ELSE InsertIdxAll(r.node, arr, i)

InsertIdxAll(l, arr, i) ==
    IF i > Len(arr) THEN St(l, "Ok")
    ELSE InsertIdxRest(l, ListInsertIdx(l, i - 1, arr[i]), arr, i + 1)

\* Ok(crdt) of node_from, r being the crdt after its local mutations
NodeOf(r) == IF r.status = "Panic" THEN Panic ELSE Ok(r.node)

\* Ok(Self { path, id, fields }) of a record's node_from
StructOf(t, id, path, r) ==
    IF r = Panic THEN Panic
    ELSE Ok([k |-> "struct", t |-> t, id |-> id, path |-> path, fields |-> r[2]])

\* T::node_from(value, id, path): Ok(node), Err or Panic
NodeFrom(t, value, id, path) ==
    CASE t = TValue -> Ok(PrimNode(t, value))
      [] t = TBool ->
            IF value[1] = "Bool" THEN Ok(PrimNode(t, value[2])) ELSE Err
      [] t = TF64 ->
            IF value[1] = "Number" THEN Ok(PrimNode(t, value[2])) ELSE Err
      [] t = TString ->
            IF value[1] = "String" THEN Ok(PrimNode(t, value[2])) ELSE Err
      [] t = TChar ->
            IF value[1] = "String" /\ Len(value[2]) > 0
            THEN Ok(PrimNode(t, value[2][1])) ELSE Err
      [] t[1] = "reg" -> NodeOf(LwwSet(LwwNew(t[2], id, path), value))
      [] t[1] = "list" ->
            IF value[1] = "Array"
            THEN NodeOf(InsertIdxAll(ListNew(t[2], id, path), value[2], 1))
            ELSE Err
      [] OTHER ->
            IF value[1] = "Object"
            THEN StructOf(t, id, path, StructFromFields(t, value[2], id, path, 1))
            ELSE Err

\* CrdtNode::new
New(t, id, path) ==
    CASE t[1] = "reg" -> LwwNew(t[2], id, path)
      [] t[1] = "list" -> ListNew(t[2], id, path)
      [] t[1] = "struct" -> StructNew(t, id, path)
      [] OTHER -> PrimNode(t, PrimDefault(t))

\* an apply whose primitives accept the op
ApplyPrimOk(n, op) ==
    CASE n.k = "reg" -> LwwApply(n, op)
      [] n.k = "list" -> ListApply(n, op)
      [] n.k = "struct" -> StructApply(n, op)
      [] OTHER -> St(n, "Ok")

\* CrdtNode::apply
Apply(n, op) ==
    CASE n.k = "reg" -> LwwApply(n, op)
      [] n.k = "list" -> ListApply(n, op)
      [] n.k = "struct" -> StructApply(n, op)
      [] OTHER -> St(n, "ErrApplyOnPrimitive")

\* CrdtNode::view
View(n) ==
    CASE n.k = "reg" -> LwwView(n)
      [] n.k = "list" -> ListView(n)
      [] n.k = "struct" -> StructView(n)
      [] OTHER -> PrimView(n)

---------------------------------------------------------------------------
(* json_crdt.rs: SignedOp and BaseCrdt (built with the "bft" feature) *)

\* keypair.public() of key pair k
PublicKey(k) == make_author(k)

\* keypair::sign: an Ed25519 signature of the message under key pair k
Sign(k, message) == <<PublicKey(k), message>>

\* the signature from_op starts with, [0u8; 64]
ZeroSig == <<ZeroAuthor, <<>>>>

\* pubkey.verify(message, signature)
Verify(pubkey, message, signature) == signature = <<pubkey, message>>

\* SignedOp::digest: sha256 of "{id:?},{path_string},{dependency_string}"
digest(e) == <<e.inner.id, print_path(e.inner.path), e.depends_on>>

\* a check of the signed message that does not look at whose key signed it
is_valid_digest_any_key(e) == e.signed_digest[2] = digest(e)

is_valid_digest(e) == Verify(e.author, digest(e), e.signed_digest)

\* SignedOp::from_op(value: Op<T>, keypair, depends_on); the content of
\* value is a node of type T and is replaced by its view
\* new.signed_digest = sign(keypair, &new.digest()).sig.to_bytes()
SignDigest(new, k) == [new EXCEPT !.signed_digest = Sign(k, digest(new))]

from_op(value, k, depends_on) ==
    SignDigest([inner |-> [value EXCEPT !.content =
                              IF IsSome(@) THEN Some(View(Unwrap(@))) ELSE None],
                author |-> PublicKey(k),
                signed_digest |-> ZeroSig,
                depends_on |-> depends_on], k)

\* Op<Value>::sign_with_dependencies; deps is a sequence of SignedOps
sign_with_dependencies(op, k, deps) ==
    from_op([op EXCEPT !.content =
                IF IsSome(@) THEN Some(PrimNode(TValue, Unwrap(@))) ELSE None],
            k, [i \in 1..Len(deps) |-> deps[i].signed_digest])

\* Op<Value>::sign
sign(op, k) == sign_with_dependencies(op, k, <<>>)

\* BaseCrdt::new for document type t
BaseNew(t, k) ==
    [id |-> PublicKey(k), doc |-> New(t, PublicKey(k), <<>>),
     received |-> {}, message_q |-> EmptyQ]

\* a check that looks at the first dependency only
FirstMissingFirstOnly(depends_on, received) ==
    IF Len(depends_on) >= 1 /\ depends_on[1] \notin received THEN 1 ELSE 0

\* the first dependency that has not been received, 0 if there is none
FirstMissing(depends_on, received) ==
    IF \E i \in 1..Len(depends_on) : depends_on[i] \notin received
    THEN CHOOSE i \in 1..Len(depends_on) :
            /\ depends_on[i] \notin received
            /\ \A j \in 1..(i - 1) : depends_on[j] \in received
    ELSE 0

BRes(b, status, log) == [b |-> b, status |-> status, log |-> log]

\* what the build profile makes of an arithmetic overflow
OnProfile(status) ==
    IF status = "SubOverflow"
    THEN IF overflow_checks THEN "Panic" ELSE "ErrPathMismatch"
    ELSE status

RECURSIVE BaseApply(_, _)
RECURSIVE BaseApplyAll(_, _)

\* for dependent in q.drain(..) { self.apply(dependent); }
BaseJoin(r, rest) == BRes(rest.b, rest.status, r.log \o rest.log)

BaseApplyRest(r, q) ==
    IF r.status = "Panic" THEN r ELSE BaseJoin(r, BaseApplyAll(r.b, q))

BaseApplyAll(b, q) ==
    IF Len(q) = 0 THEN BRes(b, "Ok", <<>>)
    ELSE BaseApplyRest(BaseApply(b, Head(q)), Tail(q))

\* the status of the call is that of self.doc.apply; the statuses of the
\* dependents it applied are dropped
BaseDone(status, entry, rest) ==
    BRes(rest.b, IF rest.status = "Panic" THEN "Panic" ELSE status,
         <<entry>> \o rest.log)

\* an end of apply that records the digest and leaves the queue alone
BaseAppliedNoRelease(b, op, r, entry) ==
    BRes([b EXCEPT !.doc = r.node, !.received = @ \cup {op.signed_digest}],
         r.status, <<entry>>)

\* the end of apply: r is what self.doc.apply(op.inner) returned
BaseApplied(b, op, r, entry) ==
    IF r.status = "Panic" THEN BRes(b, "Panic", <<entry>>)
    ELSE BaseDone(r.status, entry,
                  BaseApplyAll([b EXCEPT
                                  !.doc = r.node,
                                  !.received = @ \cup {op.signed_digest},
                                  !.message_q = QRemove(@, op.signed_digest)],
                               QTake(b.message_q, op.signed_digest)))

BaseDocApply(b, op, r) ==
    BaseApplied(b, op, r, [digest |-> op.signed_digest,
                           depends_on |-> op.depends_on,
                           inner |-> op.inner, status |-> r.status])

\* self.doc.apply(op.inner) under the build profile
DocApply(r0) == St(r0.node, OnProfile(r0.status))

\* BaseCrdt::apply.  log lists the inner ops handed to doc.apply by this
\* call and by the calls it makes for released dependents.
BaseApply(b, op) ==
    IF ~is_valid_digest(op) THEN BRes(b, "ErrDigestMismatch", <<>>)
    ELSE LET m == FirstMissing(op.depends_on, b.received)
         IN  IF m # 0
             THEN BRes([b EXCEPT !.message_q = QPush(@, op.depends_on[m], op)],
                       "MissingCausalDependencies", <<>>)
             ELSE BaseDocApply(b, op, DocApply(Apply(b.doc, op.inner)))

---------------------------------------------------------------------------
(* map_crdt.rs: MapCRDT, a map from field names to last-writer-wins cells.  *)
(* Its Op::new takes the path of the cell as it is; apply returns nothing.  *)

\* parse_field: the name of the last path segment if it is a Field
parse_field(path) ==
    IF Len(path) > 0 /\ path[Len(path)][1] = "Field"
    THEN Some(path[Len(path)][2])
    ELSE None

MapNew(id, path) ==
    [our_id |-> id, path |-> path,
     table |-> [x \in {} |-> make_root],
     logical_clocks |-> [a \in {id} |-> 0],
     highest_seq |-> 0,
     message_q |-> EmptyQ]

MapOurSeq(m) == m.logical_clocks[m.our_id]

\* MapCRDT::find: the key whose entry has this id
MapFind(m, id) ==
    IF \E k \in DOMAIN m.table : m.table[k].id = id
    THEN Some(CHOOSE k \in DOMAIN m.table : m.table[k].id = id)
    ELSE None

\* self.table.insert(key, new_op)
MapTableInsert(m, key, new_op) ==
    [m EXCEPT !.table = [x \in DOMAIN @ \cup {key} |->
                            IF x = key THEN new_op ELSE @[x]]]

\* the delete branch of integrate; key is find(new_op.origin)
MapMarkDeleted(m, key) ==
    IF IsSome(key)
    THEN [m EXCEPT !.table[Unwrap(key)].is_deleted = TRUE]
    ELSE m

\* match seq.cmp(&old_seq)
MapPut(m, key, new_op, old_seq, old_author) ==
    IF new_op.seq > old_seq THEN MapTableInsert(m, key, new_op)
    ELSE IF new_op.seq = old_seq /\ AuthorGreater(new_op.author, old_author)
    THEN MapTableInsert(m, key, new_op)
    ELSE m

\* the insert branch of integrate; key is parse_field(new_op.path).unwrap()
MapIntegrateAt(m, key, new_op) ==
    IF key \in DOMAIN m.table
    THEN MapPut(m, key, new_op, m.table[key].seq, m.table[key].author)
    ELSE MapPut(m, key, new_op, 0, ZeroAuthor)

MapIntegrate(m, new_op) ==
    IF new_op.is_deleted
    THEN MapMarkDeleted(m, MapFind(m, new_op.origin))
    ELSE MapIntegrateAt(m, Unwrap(parse_field(new_op.path)), new_op)

\* logical_clocks.insert(author, seq); highest_seq = max(highest_seq, seq);
\* logical_clocks.insert(our_id, highest_seq)
MapBookkeeping(m, author, seq) ==
    [m EXCEPT
        !.logical_clocks =
            [a \in DOMAIN @ \cup {author} |->
                IF a = m.our_id THEN Max(m.highest_seq, seq)
                ELSE IF a = author THEN seq
                ELSE @[a]],
        !.highest_seq = Max(@, seq)]

\* an apply that forgets the op whose origin it does not hold
MapDropped(m, op) == m

\* self.message_q.entry(op.origin).or_default().push(op)
MapParked(m, op) == [m EXCEPT !.message_q = QPush(@, op.origin, op)]

RECURSIVE MapApply(_, _)
RECURSIVE MapApplyAll(_, _)

\* for dependent in q.drain(..) { self.apply(dependent); }
MapApplyAll(m, q) ==
    IF Len(q) = 0 THEN m ELSE MapApplyAll(MapApply(m, Head(q)), Tail(q))

\* let dependent_queue = self.message_q.remove(&op_id) and the loop over it
MapRelease(m, op_id) ==
    MapApplyAll([m EXCEPT !.message_q = QRemove(@, op_id)],
                QTake(m.message_q, op_id))

\* MapCRDT::apply (built with the "bft" feature)
MapApply(m, op) ==
    IF ~is_valid_hash(op) THEN m
    ELSE IF op.origin # ROOT_ID /\ IsNone(MapFind(m, op.origin))
    THEN MapParked(m, op)
    ELSE MapRelease(MapBookkeeping(MapIntegrate(m, op), op.author, op.seq),
                    op.id)

\* MapCRDT::set: [node, op]
MapSet(m, key, value) ==
    LET op == OpNew(ROOT_ID, m.our_id, seq_add1(MapOurSeq(m)), FALSE,
                    Some(value), join_path(m.path, Field(key)))
    IN  [node |-> MapApply(m, op), op |-> op]

\* MapCRDT::delete: [node, op]
MapDelete(m, op_id) ==
    LET op == OpNew(op_id, m.our_id, seq_add1(MapOurSeq(m)), TRUE, None, m.path)
    IN  [node |-> MapApply(m, op), op |-> op]

\* MapCRDT::view
MapView(m) ==
    [k \in {x \in DOMAIN m.table :
               IsSome(m.table[x].content) /\ ~m.table[x].is_deleted} |->
        Unwrap(m.table[k].content)]

\* the replicas of test_map_fuzz_commutative: l1, l2 and chk
MapReplicas == {1, 2, 3}

\* MapCRDT::<char>::new(&key) of each
EmptyMaps == [r \in MapReplicas |-> MapNew(PublicKey(r), <<>>)]

---------------------------------------------------------------------------
(* The document and the envelopes in flight.  Two peers, with key pairs 1   *)
(* and 2, produce envelopes through the library's own mutation and signing  *)
(* calls, the way the repository's tests do; a byzantine peer alters or     *)
(* fabricates some.  The replica under study receives them in any order.    *)

\* struct Item { name: LwwRegisterCrdt<char> }
ItemType == TStruct(<< <<"name", TReg(TChar)>> >>)

\* struct Doc { reg: LwwRegisterCrdt<bool>, list: ListCrdt<char>,
\*              inv: ListCrdt<Item> }
DocType ==
    TStruct(<< <<"reg", TReg(TBool)>>, <<"list", TList(TChar)>>,
               <<"inv", TList(ItemType)>> >>)

\* BaseCrdt::<Doc>::new(&key).doc of the two peers
Doc1 == BaseNew(DocType, 1).doc

Doc2 == BaseNew(DocType, 2).doc

\* crdt.doc.list.insert(ROOT_ID, 'a')
InsA == ListInsert(Doc1.fields["list"], ROOT_ID, VString(<<"a">>))

\* crdt.doc.list.insert(_a.id(), 'b')
InsB == ListInsert(InsA.node, InsA.op.id, VString(<<"b">>))

\* crdt.doc.list.delete(_a.id())
DelA == ListDelete(InsB.node, InsA.op.id)

\* base1.doc.reg.set(true), base2.doc.reg.set(false), and a second op that
\* peer 1 issues with the seq of its first one
SetR1 == LwwSet(Doc1.fields["reg"], VBool(TRUE))

SetR2 == LwwSet(Doc2.fields["reg"], VBool(FALSE))

SetR1b == LwwSet(Doc1.fields["reg"], VBool(FALSE))

\* base1.doc.inv.insert_idx(0, {"name": "s"})
InsI == ListInsertIdx(Doc1.fields["inv"], 0,
                      VObject([f \in {"name"} |-> VString(<<"s">>)]))

\* base1.doc.inv[0].name.set('n')
SetN == LwwSet(Unwrap(InsI.node.ops[2].content).fields["name"], VString(<<"n">>))

\* an Item without its field
InsBad == ListInsertIdx(Doc2.fields["inv"], 0, VObject([f \in {} |-> Null]))

\* byzantine.rs, test_forge_update: an Op<char> that names peer 1 as its
\* author, hashed as an Op<char> and signed with another key
ForgedChar ==
    LET content == HashChar("b")
        path == <<Field("list")>>
        id == HashFields(ROOT_ID, PublicKey(1), 1, FALSE, content)
    IN  from_op(MkOp(ROOT_ID, PublicKey(1), 1, FALSE, Some(PrimNode(TChar, "b")),
                     path, id), 2, <<>>)

\* the same forgery built from the Op<Value> that Op::new produces
ForgedValue ==
    sign(OpNew(ROOT_ID, PublicKey(1), 1, FALSE, Some(VString(<<"b">>)),
               <<Field("list")>>), 2)

E_A == sign(InsA.op, 1)

E_B == sign(InsB.op, 1)

E_D == sign_with_dependencies(DelA.op, 1, <<E_A>>)

E_R1 == sign(SetR1.op, 1)

E_R2 == sign_with_dependencies(SetR2.op, 2, <<E_R1>>)

E_I == sign(InsI.op, 1)

E_N == sign(SetN.op, 1)

\* byzantine.rs, test_equivocation: the id and the signature of a valid
\* envelope over altered content
E_R1x == [E_R1 EXCEPT !.inner.content = Some(VBool(FALSE))]

\* a valid envelope whose author field is changed to another key
E_Aauth == [E_A EXCEPT !.author = PublicKey(2)]

\* an envelope that carries no signature
E_Bzero == [E_B EXCEPT !.signed_digest = ZeroSig]

\* byzantine.rs, test_path_update: a signed op for a path that names no field
E_Path == sign([SetR1.op EXCEPT !.path = <<Field("x")>>], 1)

\* the second op of peer 1 at the seq of its first
E_R1b == sign(SetR1b.op, 1)

\* an insert of a record that lacks its field
E_Bad == sign(InsBad.op, 2)

\* crdt.doc.list.insert(ROOT_ID, 'c') of peer 2, declared to depend on two
\* envelopes of peer 1
InsC == ListInsert(Doc2.fields["list"], ROOT_ID, VString(<<"c">>))

E_M == sign_with_dependencies(InsC.op, 2, <<E_A, E_R1>>)

\* byzantine.rs, test_path_update (signedfalsefakepath): signed envelopes
\* altered without re-signing.  The last path segment replaced by an id that
\* starts with the same three bytes,
E_Ahome ==
    [E_A EXCEPT !.inner.path = <<Field("list"), Index(SameHex6(E_A.inner.id))>>]

\* the path replaced by that of another field,
E_Apath ==
    [E_A EXCEPT !.inner.path = <<Field("reg"), Index(E_A.inner.id)>>]

\* the inner op id replaced by another id,
E_Aid == [E_A EXCEPT !.inner.id = E_B.inner.id]

\* and the dependency list emptied
E_Dstrip == [E_D EXCEPT !.depends_on = <<>>]

Envelopes ==
    << E_I, E_N, E_R1, E_R2, E_R1x, E_A, E_B, E_D, E_R1b,
       ForgedValue, ForgedChar, E_Aauth, E_Bzero, E_Path, E_Bad,
       E_M, E_Ahome, E_Apath, E_Aid, E_Dstrip >>

MaxDeliver == 3

\* the replica under study before any delivery
Empty == BaseNew(DocType, 3)

Peers == {1, 2}

\* ListCrdt::<char>::new(id, vec![]) of each peer
EmptyLists == [p \in Peers |-> ListNew(TChar, PublicKey(p), <<>>)]

\* LwwRegisterCrdt::<char>::new(id, vec![])
EmptyReg == LwwNew(TChar, PublicKey(1), <<>>)

Init ==
    /\ base = Empty
    /\ hist = <<>>
    /\ results = <<>>
    /\ applied = <<>>
    /\ halted = FALSE
    /\ overflow_checks \in BOOLEAN
    /\ reg = EmptyReg
    /\ reg_hist = <<>>
    /\ lists = EmptyLists
    /\ net = {}
    /\ forged = {}
    /\ seen = [p \in Peers |-> {}]
    /\ deferred = [p \in Peers |-> {}]
    /\ crdt = EmptyReg
    /\ calls = <<>>
    /\ maps = EmptyMaps
    /\ map_ops = <<>>
    /\ map_got = [r \in MapReplicas |-> {}]

\* one call of BaseCrdt::apply with envelope number i
Deliver(i) ==
    /\ ~halted
    /\ Len(hist) < MaxDeliver
    /\ \E r \in {BaseApply(base, Envelopes[i])} :
           /\ base' = r.b
           /\ results' = Append(results, r.status)
           /\ applied' = applied \o r.log
           /\ halted' = (r.status = "Panic")
    /\ hist' = Append(hist, i)
    /\ UNCHANGED <<mapVars, nodeVars, overflow_checks, reg, reg_hist, listVars>>

Next == \E i \in 1..Len(Envelopes) : Deliver(i)

Spec == Init /\ [][Next]_vars

---------------------------------------------------------------------------
(* A register on its own: ops reach LwwRegisterCrdt::apply in any order,    *)
(* from peers (any seq, two authors), from a byzantine peer (content        *)
(* altered under a kept id) and from the register's own set.                *)

MaxSeq == 2

MaxRegOps == 3

RegAuthors == {1, 2}

RegContents == {"a", "b"}

\* the op that set(c) of author a produces at sequence number s
RegOp(s, a, c) ==
    WithIndexPath(OpNew(ROOT_ID, make_author(a), s, FALSE,
                        Some(VString(<<c>>)), <<>>))

\* the id of a valid op over other content
RegTampered(s, a) == [RegOp(s, a, "a") EXCEPT !.content = Some(VString(<<"z">>))]

RegOps ==
    {RegOp(s, a, c) : s \in 0..MaxSeq, a \in RegAuthors, c \in RegContents}
        \cup {RegTampered(s, 1) : s \in 0..MaxSeq}

InitReg == Init /\ overflow_checks = FALSE

\* one call of LwwRegisterCrdt::apply
RegApply(o) ==
    /\ Len(reg_hist) < MaxRegOps
    /\ \E r \in {LwwApply(reg, o)} :
           /\ r.status # "Panic"
           /\ reg' = r.node
    /\ reg_hist' = Append(reg_hist, o)
    /\ UNCHANGED <<mapVars, nodeVars, base, hist, results, applied, halted, overflow_checks, listVars>>

\* one call of LwwRegisterCrdt::set
RegSet(c) ==
    /\ Len(reg_hist) < MaxRegOps
    /\ reg.our_seq < MaxSeq
    /\ \E m \in {LwwSet(reg, VString(<<c>>))} :
           /\ reg' = m.node
           /\ reg_hist' = Append(reg_hist, m.op)
    /\ UNCHANGED <<mapVars, nodeVars, base, hist, results, applied, halted, overflow_checks, listVars>>

NextReg ==
    \/ \E o \in RegOps : RegApply(o)
    \/ \E c \in RegContents : RegSet(c)

SpecReg == InitReg /\ [][NextReg]_vars

---------------------------------------------------------------------------
(* Lists on their own: two peers change their ListCrdt<char> with insert    *)
(* and delete and pass the ops to each other's apply in any order, each op  *)
(* once to each peer; a byzantine peer adds, to an insert it has seen, a    *)
(* second op with the same origin, author and seq and other content.        *)

\* the number of ops in flight, forged ones included
MaxListOps == 3

\* the content of the k-th op the peers produce
ListLetters == <<"a", "b", "c", "d", "e", "f">>

NextLetter == VString(<<ListLetters[Cardinality(net) + 1]>>)

\* the ids of the ops in a list, in list order
Ids(l) == [i \in 1..Len(l.ops) |-> l.ops[i].id]

InitList == Init /\ overflow_checks = FALSE

\* the bookkeeping of a local mutation m of peer p
Produced(p, m) ==
    /\ m.status # "Panic"
    /\ lists' = [lists EXCEPT ![p] = m.node]
    /\ net' = net \cup {m.op}
    /\ seen' = [seen EXCEPT ![p] = @ \cup {m.op}]
    /\ deferred' = [deferred EXCEPT ![p] =
                        IF m.status = "MissingCausalDependencies"
                        THEN @ \cup {m.op} ELSE @]

\* ListCrdt::insert after an op the peer's list holds
LocalInsert(p, after) ==
    /\ Cardinality(net \cup forged) < MaxListOps
    /\ find_idx(lists[p].ops, after) # 0
    /\ Produced(p, ListInsert(lists[p], after, NextLetter))
    /\ UNCHANGED <<mapVars, nodeVars, base, hist, results, applied, halted, overflow_checks,
                   reg, reg_hist, forged>>

\* ListCrdt::delete of an op the peer's list holds
LocalDelete(p, id) ==
    /\ Cardinality(net \cup forged) < MaxListOps
    /\ find_idx(lists[p].ops, id) # 0
    /\ Produced(p, ListDelete(lists[p], id))
    /\ UNCHANGED <<mapVars, nodeVars, base, hist, results, applied, halted, overflow_checks,
                   reg, reg_hist, forged>>

\* ListCrdt::apply of peer p with an op that is in flight
Receive(p, o) ==
    /\ o \notin seen[p]
    /\ \E r \in {ListApply(lists[p], o)} :
           /\ r.status # "Panic"
           /\ lists' = [lists EXCEPT ![p] = r.node]
           /\ deferred' = [deferred EXCEPT ![p] =
                               IF r.status = "MissingCausalDependencies"
                               THEN @ \cup {o} ELSE @]
    /\ seen' = [seen EXCEPT ![p] = @ \cup {o}]
    /\ UNCHANGED <<mapVars, nodeVars, base, hist, results, applied, halted, overflow_checks,
                   reg, reg_hist, net, forged>>

\* Op::new with the origin, author and seq of the insert o and content 'x'
Forge(o) ==
    /\ Cardinality(net \cup forged) < MaxListOps
    /\ ~o.is_deleted
    /\ forged' = forged \cup
           {WithIndexPath(OpNew(o.origin, o.author, o.seq, FALSE,
                                Some(VString(<<"x">>)), <<>>))}
    /\ UNCHANGED <<mapVars, nodeVars, base, hist, results, applied, halted, overflow_checks,
                   reg, reg_hist, lists, net, seen, deferred>>

NextList ==
    \/ \E p \in Peers : \E after \in Range(Ids(lists[p])) : LocalInsert(p, after)
    \/ \E p \in Peers : \E id \in Range(Ids(lists[p])) : LocalDelete(p, id)
    \/ \E p \in Peers : \E o \in net \cup forged : Receive(p, o)
    \/ \E o \in net : Forge(o)

SpecList == InitList /\ [][NextList]_vars

---------------------------------------------------------------------------
(* One node on its own: a register, a list, a record or a primitive of a    *)
(* replica with key 1.  Its owner changes it with set, insert, insert_idx   *)
(* and delete; ops of a second author reach its apply, well formed or not:  *)
(* content of any JSON type or none, is_deleted either way, the id always   *)
(* the hash Op::new computes.                                               *)

MaxCalls == 3

\* struct Pair { name: LwwRegisterCrdt<char>, tags: ListCrdt<char> }
PairType == TStruct(<< <<"name", TReg(TChar)>>, <<"tags", TList(TChar)>> >>)

\* struct Doc { pair: Pair }: the path of the record under study
PairPath == <<Field("pair")>>

\* the type and the path of each kind of node
NodeStarts ==
    {<<t, <<>> >> :
        t \in {TReg(TBool), TList(TChar), TList(TReg(TChar)),
               TBool, TF64, TString, TChar, TValue}}
      \cup {<<PairType, PairPath>>}

\* Option<Value> contents an op may carry
NodeContents ==
    {None, Some(VBool(FALSE)), Some(VString(<<"r">>)), Some(VNumber(1))}

\* the content of the k-th local insert
NodeLetters == <<"a", "b", "c", "d", "e">>

\* Op::new by the second author
Remote(origin, is_deleted, content, path) ==
    OpNew(origin, make_author(2), 2, is_deleted, content, path)

\* Op::new by the second author with the greatest sequence number
RemoteLast(content, path) ==
    OpNew(ROOT_ID, make_author(2), SeqMax, FALSE, content, path)

\* the id of the element that the second author inserts at the root
FutureId == Remote(ROOT_ID, FALSE, Some(VString(<<"r">>)), <<>>).id

\* the paths of the ops sent to the record n
RecordPaths(n) ==
    {<<>>, n.path, <<Field("other"), Field("name")>>,
     join_path(n.path, Field("nope")), join_path(n.path, Index(ROOT_ID))}
      \cup {join_path(join_path(n.path, Field(f)), Index(ROOT_ID)) :
               f \in FieldNames(n.t)}

\* the ops that may reach apply of node n
RemoteOps(n) ==
    CASE n.k = "reg" ->
            {WithIndexPath(Remote(ROOT_ID, d, c, n.path)) :
                d \in BOOLEAN, c \in NodeContents}
              \cup {WithIndexPath(RemoteLast(Some(VBool(FALSE)), n.path))}
      [] n.k = "list" ->
            {WithIndexPath(Remote(o, d, c, n.path)) :
                o \in Range(Ids(n)), d \in BOOLEAN, c \in NodeContents}
              \cup {Remote(ROOT_ID, FALSE, Some(VString(<<"r">>)),
                           join_path(join_path(n.path, Index(x)), Index(ROOT_ID))) :
                       x \in Range(Ids(n)) \cup {FutureId}}
              \cup {WithIndexPath(RemoteLast(Some(VString(<<"r">>)), n.path))}
      [] n.k = "struct" ->
            {Remote(ROOT_ID, FALSE, Some(VString(<<"r">>)), p) :
                p \in RecordPaths(n)}
      [] OTHER ->
            {WithIndexPath(Remote(ROOT_ID, d, Some(VBool(FALSE)), <<>>)) :
                d \in BOOLEAN}

InitNode ==
    /\ base = Empty
    /\ hist = <<>>
    /\ results = <<>>
    /\ applied = <<>>
    /\ halted = FALSE
    /\ overflow_checks = FALSE
    /\ reg = EmptyReg
    /\ reg_hist = <<>>
    /\ lists = EmptyLists
    /\ net = {}
    /\ forged = {}
    /\ seen = [p \in Peers |-> {}]
    /\ deferred = [p \in Peers |-> {}]
    /\ \E s \in NodeStarts : crdt = New(s[1], PublicKey(1), s[2])
    /\ calls = <<>>
    /\ maps = EmptyMaps
    /\ map_ops = <<>>
    /\ map_got = [r \in MapReplicas |-> {}]

\* the caller is alive and within the bound
CanCall ==
    /\ Len(calls) < MaxCalls
    /\ IF calls = <<>> THEN TRUE ELSE Last(calls).status # "Panic"

\* the bookkeeping of a call: m is [node, op, status]
Called(name, arg, m) ==
    /\ crdt' = m.node
    /\ calls' = Append(calls, [call |-> name, arg |-> arg, op |-> m.op,
                               status |-> m.status])
    /\ UNCHANGED <<mapVars, base, hist, results, applied, halted,
                   overflow_checks, reg, reg_hist, listVars>>

\* what a local call that ends as m can do on node n: at our_seq = u64::MAX
\* the addition our_seq + 1 wraps in a build without overflow checks (m)
\* and panics in a build with them
LocalOutcomes(n, m) ==
    IF n.our_seq = SeqMax
    THEN {m, [node |-> n, op |-> m.op, status |-> "Panic"]}
    ELSE {m}

\* CrdtNode::apply with an op of the second author
NodeApply(o) ==
    /\ CanCall
    /\ Called("apply", <<>>, Mutation(o, Apply(crdt, o)))

\* LwwRegisterCrdt::set
NodeSet(v) ==
    /\ CanCall
    /\ crdt.k = "reg"
    /\ \E m \in LocalOutcomes(crdt, LwwSet(crdt, v)) : Called("set", <<>>, m)

\* ListCrdt::insert
NodeInsert(after) ==
    /\ CanCall
    /\ crdt.k = "list"
    /\ \E m \in LocalOutcomes(crdt,
              ListInsert(crdt, after, VString(<<NodeLetters[Len(calls) + 1]>>))) :
           Called("insert", <<>>, m)

\* ListCrdt::insert_idx
NodeInsertIdx(i) ==
    /\ CanCall
    /\ crdt.k = "list"
    /\ \E m \in LocalOutcomes(crdt,
              ListInsertIdx(crdt, i, VString(<<NodeLetters[Len(calls) + 1]>>))) :
           Called("insert_idx", <<i>>, m)

\* ListCrdt::delete
NodeDelete(id) ==
    /\ CanCall
    /\ crdt.k = "list"
    /\ \E m \in LocalOutcomes(crdt, ListDelete(crdt, id)) :
           Called("delete", <<>>, m)

\* the ids a caller can name: those of the ops of the list
NodeIds == IF crdt.k = "list" THEN Range(Ids(crdt)) ELSE {}

\* the indices a caller tries: 0 to the number of ops of the list
NodeIdxs == IF crdt.k = "list" THEN 0..Len(crdt.ops) ELSE {}

NextNode ==
    \/ \E o \in RemoteOps(crdt) : NodeApply(o)
    \/ \E v \in {VBool(TRUE), VBool(FALSE), VNumber(1)} : NodeSet(v)
    \/ \E after \in NodeIds : NodeInsert(after)
    \/ \E i \in NodeIdxs : NodeInsertIdx(i)
    \/ \E id \in NodeIds : NodeDelete(id)

SpecNode == InitNode /\ [][NextNode]_vars

---------------------------------------------------------------------------
(* Maps: replicas 1 and 2 call set and delete on their own MapCRDT;         *)
(* replica 3 makes no op of its own and applies the ops of both, in any     *)
(* order and more than once (commutative.rs, test_map_fuzz_commutative:     *)
(* l1, l2 and chk).                                                         *)

MapWriters == {1, 2}

MapKeys == {"x", "y"}

\* the value replica r writes
MapLetter(r) == IF r = 1 THEN "a" ELSE "b"

\* the ops made over all replicas, and the ops a replica holds parked when
\* it takes one more
MaxMapOps == 3

MaxMapParked == 1

InitMap == Init /\ overflow_checks = FALSE

\* chk
MapChk == 3

\* replica r called apply of m with op o
MapCalled(r, o, m) ==
    /\ maps' = [maps EXCEPT ![r] = m]
    /\ map_got' = [map_got EXCEPT ![r] = @ \cup {o}]
    /\ UNCHANGED <<nodeVars, base, hist, results, applied, halted,
                   overflow_checks, reg, reg_hist, listVars>>

\* l.set(key, letter)
MapLocalSet(r, key) ==
    /\ Len(map_ops) < MaxMapOps
    /\ \E m \in {MapSet(maps[r], key, MapLetter(r))} :
           /\ MapCalled(r, m.op, m.node)
           /\ map_ops' = Append(map_ops, m.op)

\* l.delete(id)
MapLocalDelete(r, id) ==
    /\ Len(map_ops) < MaxMapOps
    /\ \E m \in {MapDelete(maps[r], id)} :
           /\ MapCalled(r, m.op, m.node)
           /\ map_ops' = Append(map_ops, m.op)

\* chk.apply(op) with an op one of the two made
MapReceive(i) ==
    /\ QSize(maps[MapChk].message_q) <= MaxMapParked
    /\ MapCalled(MapChk, map_ops[i], MapApply(maps[MapChk], map_ops[i]))
    /\ UNCHANGED map_ops

NextMap ==
    \/ \E r \in MapWriters, key \in MapKeys : MapLocalSet(r, key)
    \/ \E r \in MapWriters :
          \E id \in {ROOT_ID} \cup {map_ops[i].id : i \in 1..Len(map_ops)} :
              MapLocalDelete(r, id)
    \/ \E i \in 1..Len(map_ops) : MapReceive(i)

SpecMap == InitMap /\ [][NextMap]_vars

---------------------------------------------------------------------------
(* Properties *)

\* h without its k-th element
Without(h, k) == SubSeq(h, 1, k - 1) \o SubSeq(h, k + 1, Len(h))

\* every order of the elements of h
Reorderings(h) ==
    {[k \in 1..Len(h) |-> h[p[k]]] : p \in Permutations(1..Len(h))}

NoRepeat(h) == \A i, j \in 1..Len(h) : i # j => h[i] # h[j]

RECURSIVE Run(_, _)

RunRest(r, h) == IF r.status = "Panic" THEN r ELSE Run(r.b, h)

\* replica b after BaseCrdt::apply of the envelopes numbered h, in order;
\* status "Panic" if one of the calls panicked
Run(b, h) ==
    IF Len(h) = 0 THEN BRes(b, "Ok", <<>>)
    ELSE RunRest(BaseApply(b, Envelopes[Head(h)]), Tail(h))

\* view() of a replica that started empty and was passed the envelopes h
ViewAfter(h) == View(Run(Empty, h).b.doc)

Panics(h) == Run(Empty, h).status = "Panic"

\* the step is the apply call for envelope number i
Delivered(i) == hist' = Append(hist, i)

Errors ==
    {"ErrDigestMismatch", "ErrHashMismatch", "ErrPathMismatch",
     "ErrApplyOnPrimitive", "ErrApplyOnStruct", "ErrMismatchedType",
     "ErrListApplyToEmpty"}

\* C1: two replicas that start empty and are passed the same set of
\* envelopes, in any two orders, have equal view().  The replica under study
\* took the envelopes in the order hist; the other replica takes them in any
\* other order.
C1_StrongEventualConsistency ==
    (NoRepeat(hist) /\ ~halted) =>
        \A h2 \in Reorderings(hist) :
            ~Panics(h2) => ViewAfter(h2) = View(base.doc)

\* C2: an envelope's inner op is handed to the document tree only after the
\* inner op of each envelope it depends on has been applied to that tree.
C2_CausalOrder ==
    \A j \in 1..Len(applied) :
        \A d \in Range(applied[j].depends_on) :
            \E i \in 1..(j - 1) :
                applied[i].digest = d /\ applied[i].status = "Ok"

\* an inner op id that is not the hash of the op's fields, or a signed digest
\* that does not verify under the envelope author's key
Invalid(e) == ~is_valid_hash(e.inner) \/ ~is_valid_digest(e)

\* C3: an envelope with a wrong inner op id or a signature that does not
\* verify is rejected, and view() is what it would be had the envelope
\* never been delivered.
C3_Integrity ==
    ~halted =>
        \A k \in 1..Len(hist) :
            Invalid(Envelopes[hist[k]]) =>
                /\ results[k] \in Errors
                /\ ~Panics(Without(hist, k)) =>
                       ViewAfter(Without(hist, k)) = View(base.doc)

MaxRepeat == 2

RECURSIVE Again(_, _, _)

AgainRest(r, e, k) == IF r.status = "Panic" \/ k = 0 THEN r ELSE Again(r.b, e, k)

\* k >= 1 more apply calls with envelope e on replica b: the last call
Again(b, e, k) == AgainRest(BaseApply(b, e), e, k - 1)

SameViewAndOk(r, first) ==
    /\ r.status # "Panic"
    /\ View(r.b.doc) = View(base.doc)
    /\ first = "Ok" => r.status = "Ok"

\* C4: passing an envelope to apply again, any number of times, leaves
\* view() as it was after the first time, and every repeat of an accepted
\* envelope returns Ok.  The envelope is the one the last apply call took;
\* it reaches the register, the flat list and the list of records.
C4_Idempotence ==
    (Len(hist) >= 1 /\ ~halted) =>
        \A k \in 1..MaxRepeat :
            SameViewAndOk(Again(base, Envelopes[Last(hist)], k), Last(results))

\* an accepted insert into the list was delivered twice in a row
C4_Witness ==
    /\ Len(hist) >= 2
    /\ hist[Len(hist)] = hist[Len(hist) - 1]
    /\ results[Len(hist) - 1] = "Ok"
    /\ results[Len(hist)] = "Ok"
    /\ View(base.doc)[2]["list"] # VArray(<<>>)

Independent(a, b) ==
    /\ a.signed_digest \notin Range(b.depends_on)
    /\ b.signed_digest \notin Range(a.depends_on)

\* hist with its last two elements in the other order
LastTwoSwapped(h) ==
    SubSeq(h, 1, Len(h) - 2) \o <<h[Len(h)], h[Len(h) - 1]>>

\* C5: two envelopes, neither of which depends on the other, applied in
\* either order from the same document state, give the same view().
C5_Commutativity ==
    (/\ Len(hist) >= 2
     /\ ~halted
     /\ Independent(Envelopes[hist[Len(hist) - 1]], Envelopes[Last(hist)])
     /\ ~Panics(LastTwoSwapped(hist)))
        => ViewAfter(LastTwoSwapped(hist)) = View(base.doc)

\* the key whose private half produced the signature
SignerOf(signature) == signature[1]

\* the signed digest was not produced by the key in the envelope's author field
ForgedEnvelope(e) == SignerOf(e.signed_digest) # e.author

\* C6: an envelope whose signature was not made with the key of its author
\* field gets ErrDigestMismatch, and the document tree, the received set and
\* the pending queue stay as they were.
C6_NoForgedEnvelopeAuthorship ==
    [][\A i \in 1..Len(Envelopes) :
          (Delivered(i) /\ ForgedEnvelope(Envelopes[i])) =>
              /\ Last(results') = "ErrDigestMismatch"
              /\ base' = base]_vars

\* a forged envelope reached a replica that already holds state
C6_Witness ==
    /\ Len(hist) >= 2
    /\ ForgedEnvelope(Envelopes[Last(hist)])
    /\ Last(results) = "ErrDigestMismatch"
    /\ base.received # {}
    /\ DOMAIN base.message_q # {}

\* the inner op names one key as its author and the envelope is signed, and
\* verifies, under another
ForgedInner(e) ==
    /\ Len(e.inner.author) = 1
    /\ e.inner.author # e.author
    /\ is_valid_digest(e)

\* C7: an op whose author field names one key and which is signed with
\* another gets ErrDigestMismatch and does not change view().
C7_NoForgedInnerAuthorship ==
    [][\A i \in 1..Len(Envelopes) :
          (Delivered(i) /\ ForgedInner(Envelopes[i])) =>
              /\ Last(results') = "ErrDigestMismatch"
              /\ View(base'.doc) = View(base.doc)]_vars

\* x is a valid signed op and e keeps its id and signature over altered fields
TamperedCopy(e, x) ==
    /\ is_valid_hash(x.inner)
    /\ is_valid_digest(x)
    /\ e.inner.id = x.inner.id
    /\ e.signed_digest = x.signed_digest
    /\ e.inner # x.inner

Tampered(e) == \E j \in 1..Len(Envelopes) : TamperedCopy(e, Envelopes[j])

\* envelope number i is valid and a tampered copy of it was delivered before
AfterItsTamperedCopy(i) ==
    \E k \in 1..Len(hist) : TamperedCopy(Envelopes[hist[k]], Envelopes[i])

\* C8: a copy of a valid signed op with altered content gets ErrHashMismatch
\* and leaves view() as it was; the honest op, applied later, returns Ok.
C8_EquivocationRejected ==
    [][\A i \in 1..Len(Envelopes) :
          Delivered(i) =>
              /\ Tampered(Envelopes[i]) =>
                     /\ Last(results') = "ErrHashMismatch"
                     /\ View(base'.doc) = View(base.doc)
              /\ AfterItsTamperedCopy(i) => Last(results') = "Ok"]_vars

\* C9: no apply call on an envelope panics; each returns an OpState.
C9_NoPanic == ~halted /\ \A k \in 1..Len(results) : results[k] # "Panic"

\* the ops with a valid hash that the register's apply was called with
ValidOps == {o \in Range(reg_hist) : is_valid_hash(o)}

DistinctSeqAuthor(S) ==
    \A o1, o2 \in S : (o1.seq = o2.seq /\ o1.author = o2.author) => o1 = o2

\* the op with the greatest seq and, at that seq, the lowest author
Winner(S) ==
    CHOOSE w \in S :
        \A o \in S :
            \/ w.seq > o.seq
            \/ w.seq = o.seq /\ ~AuthorLess(o.author, w.author)

Holds(r, w) ==
    /\ r.value.seq = w.seq
    /\ r.value.author = w.author
    /\ LwwView(r) = Unwrap(w.content)

\* C10 as stated: after any set of valid ops with pairwise distinct
\* (seq, author), in any order, the register holds the content of the op
\* with the greatest seq and, at that seq, the lowest author.
C10_LwwRule ==
    (ValidOps # {} /\ DistinctSeqAuthor(ValidOps)) =>
        Holds(reg, Winner(ValidOps))

\* C10 amended: the rule holds when the greatest seq is 1 or more; ops of
\* seq 0 never replace the initial value, and a register that was given
\* only such ops is still empty.
C10_LwwRuleFromSeqOne ==
    (ValidOps # {} /\ DistinctSeqAuthor(ValidOps)) =>
        IF Winner(ValidOps).seq >= 1
        THEN Holds(reg, Winner(ValidOps))
        ELSE reg.value = make_root /\ LwwView(reg) = Null

\* two ops tie on the greatest seq and the one with the lower author id came
\* second: the tie-break replaced the value
C10_Witness ==
    /\ DistinctSeqAuthor(ValidOps)
    /\ \E i, j \in 1..Len(reg_hist) :
           /\ i < j
           /\ is_valid_hash(reg_hist[i]) /\ is_valid_hash(reg_hist[j])
           /\ reg_hist[i].seq = reg_hist[j].seq
           /\ reg_hist[j].seq = Winner(ValidOps).seq
           /\ reg_hist[j].seq >= 1
           /\ AuthorLess(reg_hist[j].author, reg_hist[i].author)
           /\ reg.value.author = reg_hist[j].author

---------------------------------------------------------------------------
(* The register under equivocation and the interleave scenario *)

RECURSIVE RegRun(_, _)

\* register r after LwwRegisterCrdt::apply of the ops h, in order
RegRun(r, h) ==
    IF Len(h) = 0 THEN r ELSE RegRun(LwwApply(r, Head(h)).node, Tail(h))

\* two distinct valid ops of one author at one seq
Equivocation(o1, o2) ==
    /\ o1 # o2
    /\ is_valid_hash(o1) /\ is_valid_hash(o2)
    /\ o1.seq = o2.seq
    /\ o1.author = o2.author

\* C17: when the ops a register applied include two distinct valid ops of
\* one author at one seq, a replica that applied the same ops in any other
\* order has the same view().
C17_EquivocationConverges ==
    (\E i, j \in 1..Len(reg_hist) : Equivocation(reg_hist[i], reg_hist[j])) =>
        \A h2 \in Reorderings(reg_hist) :
            LwwView(RegRun(EmptyReg, h2)) = LwwView(reg)

\* the register applied set('a') of author a1 and set('b') of author a2,
\* both at seq 1, in one of the two orders, and nothing else
Interleaved(a1, a2) ==
    \/ reg_hist = <<RegOp(1, a1, "a"), RegOp(1, a2, "b")>>
    \/ reg_hist = <<RegOp(1, a2, "b"), RegOp(1, a1, "a")>>

\* C19 as stated: after set('a') by A1 and set('b') by A2, both at seq 1 and
\* in either order, view() is 'b' if A2 > A1 and 'a' otherwise.
C19_InterleaveHigherAuthor ==
    \A a1, a2 \in RegAuthors :
        (a1 # a2 /\ Interleaved(a1, a2)) =>
            LwwView(reg) =
                VString(<<IF AuthorGreater(make_author(a2), make_author(a1))
                          THEN "b" ELSE "a">>)

\* C19 amended: view() is 'b' if A2 < A1 and 'a' otherwise: the op of the
\* lower author id is the one kept, in both orders.
C19_InterleaveLowerAuthor ==
    \A a1, a2 \in RegAuthors :
        (a1 # a2 /\ Interleaved(a1, a2)) =>
            LwwView(reg) =
                VString(<<IF AuthorLess(make_author(a2), make_author(a1))
                          THEN "b" ELSE "a">>)

\* the scenario ran with the op of the lower author arriving second, and
\* that op replaced the value the register held
C19_Witness ==
    \E a1, a2 \in RegAuthors :
        /\ a1 # a2
        /\ Interleaved(a1, a2)
        /\ AuthorLess(reg_hist[2].author, reg_hist[1].author)
        /\ reg.value.author = reg_hist[2].author
        /\ LwwView(reg) = Unwrap(reg_hist[2].content)

---------------------------------------------------------------------------
(* Causal delivery at the document level *)

\* the envelopes parked in the pending queue of replica b
Parked(b) == UNION {Range(b.message_q[k]) : k \in DOMAIN b.message_q}

\* the inner ops this step handed to doc.apply, in order
NewlyApplied == SubSeq(applied', Len(applied) + 1, Len(applied'))

\* envelope p is among the ops handed to doc.apply after the first of log
AppliedAfterFirst(log, p) ==
    \E k \in 2..Len(log) :
        log[k].digest = p.signed_digest /\ log[k].inner = p.inner

\* the apply call parks envelope e: it verifies and a dependency is missing
Defers(e) ==
    /\ is_valid_digest(e)
    /\ FirstMissing(e.depends_on, base.received) # 0

\* C13: an envelope with a dependency that has not been received gets
\* MissingCausalDependencies, view() and the received set stay as they were
\* and the envelope is in the pending queue under that dependency; the apply
\* call that hands the dependency to the document also hands over, after it
\* and within the same call, every envelope parked on it that misses nothing
\* else.
C13_CausalDeferral ==
    [][\A i \in 1..Len(Envelopes) :
          Delivered(i) =>
              /\ Defers(Envelopes[i]) =>
                     /\ Last(results') = "MissingCausalDependencies"
                     /\ View(base'.doc) = View(base.doc)
                     /\ base'.received = base.received
                     /\ applied' = applied
                     /\ Envelopes[i] \in Range(QTake(base'.message_q,
                            Envelopes[i].depends_on[
                                FirstMissing(Envelopes[i].depends_on, base.received)]))
              /\ (~halted' /\ Len(applied') > Len(applied)) =>
                     /\ Envelopes[i].signed_digest \notin DOMAIN base'.message_q
                     /\ \A p \in Range(QTake(base.message_q, Envelopes[i].signed_digest)) :
                            (Range(p.depends_on) \subseteq
                                 base.received \cup {Envelopes[i].signed_digest})
                                => AppliedAfterFirst(NewlyApplied, p)]_vars

\* an envelope was parked on its one dependency, and the apply call for that
\* dependency applied both, the dependency first
C13_Witness ==
    /\ Len(hist) = 2
    /\ results = <<"MissingCausalDependencies", "Ok">>
    /\ Envelopes[hist[1]].depends_on = <<Envelopes[hist[2]].signed_digest>>
    /\ Len(applied) = 2
    /\ applied[1].digest = Envelopes[hist[2]].signed_digest
    /\ applied[2].digest = Envelopes[hist[1]].signed_digest
    /\ applied[2].status = "Ok"
    /\ Parked(base) = {}
    /\ View(base.doc) # View(Empty.doc)

\* the envelopes with several dependencies that were passed to apply and
\* verify
SeveralDeps ==
    {e \in {Envelopes[hist[k]] : k \in 1..Len(hist)} :
        is_valid_digest(e) /\ Len(e.depends_on) >= 2}

\* the positions in applied at which envelope e was handed to the document
AppliedAt(e) ==
    {j \in 1..Len(applied) :
        applied[j].digest = e.signed_digest /\ applied[j].inner = e.inner}

\* C14: an envelope with several dependencies is handed to the document only
\* after every one of its dependencies was received, it has been handed over
\* once all of them are in the received set, and no parked envelope has all
\* its dependencies in the received set.
C14_MultipleDependencies ==
    ~halted =>
        /\ \A e \in SeveralDeps :
               /\ \A j \in AppliedAt(e) :
                      \A d \in Range(e.depends_on) :
                          \E i \in 1..(j - 1) : applied[i].digest = d
               /\ (Range(e.depends_on) \subseteq base.received) => AppliedAt(e) # {}
               /\ (AppliedAt(e) = {}) => e \in Parked(base)
        /\ \A p \in Parked(base) : ~(Range(p.depends_on) \subseteq base.received)

\* an envelope with two dependencies was parked on the first, parked again
\* on the second when the first arrived, and applied when the second arrived
C14_Witness ==
    /\ Len(hist) = 3
    /\ results[1] = "MissingCausalDependencies"
    /\ Len(Envelopes[hist[1]].depends_on) = 2
    /\ Envelopes[hist[2]].signed_digest = Envelopes[hist[1]].depends_on[1]
    /\ Envelopes[hist[3]].signed_digest = Envelopes[hist[1]].depends_on[2]
    /\ Len(applied) = 3
    /\ applied[3].digest = Envelopes[hist[1]].signed_digest
    /\ applied[3].status = "Ok"
    /\ Parked(base) = {}

\* the statuses with which the document tree rejects an inner op
TreeErrors ==
    {"ErrHashMismatch", "ErrPathMismatch", "ErrApplyOnPrimitive",
     "ErrApplyOnStruct", "ErrMismatchedType", "ErrListApplyToEmpty"}

\* C15: when the document tree rejects the inner op of an envelope, the
\* received set stays as it was and no parked envelope is released.
C15_QuiescentErrors ==
    [][\A i \in 1..Len(Envelopes) :
          (Delivered(i) /\ Last(results') \in TreeErrors) =>
              /\ base'.received = base.received
              /\ base'.message_q = base.message_q]_vars

\* the envelopes as sign, sign_with_dependencies or from_op returned them
AsSigned ==
    {E_I, E_N, E_R1, E_R2, E_A, E_B, E_D, E_R1b, E_M, E_Path, E_Bad,
     ForgedValue, ForgedChar}

\* e carries the signature of the signed op x and differs from it in the
\* inner op id, the path or the dependency list
Altered(e, x) ==
    /\ e.author = x.author
    /\ e.signed_digest = x.signed_digest
    /\ \/ e.inner.id # x.inner.id
       \/ e.inner.path # x.inner.path
       \/ e.depends_on # x.depends_on

\* C16: a signed envelope whose inner op id, path or dependency list was
\* changed without signing again gets ErrDigestMismatch.
C16_DigestBinding ==
    [][\A i \in 1..Len(Envelopes) :
          (Delivered(i) /\ \E x \in AsSigned : Altered(Envelopes[i], x)) =>
              Last(results') = "ErrDigestMismatch"]_vars

---------------------------------------------------------------------------
(* Lists: convergence, sibling order, parking *)

\* C11: two list replicas whose apply was called with the same set of ops,
\* all of them produced by the peers' insert and delete, have equal view(),
\* whatever the order each took them in.
C11_ListConvergence ==
    (seen[1] = seen[2] /\ seen[1] \subseteq net) =>
        ListView(lists[1]) = ListView(lists[2])

\* both replicas took the same three ops, a delete among them and one that
\* reached a replica before its origin, and show a non-empty list
C11_Witness ==
    /\ seen[1] = seen[2]
    /\ seen[1] = net
    /\ Cardinality(net) = MaxListOps
    /\ \E o \in net : o.is_deleted
    /\ \E p \in Peers : deferred[p] # {}
    /\ ListView(lists[1]) # VArray(<<>>)

\* x goes before its sibling y: greater seq, or equal seq and greater author
SiblingFirst(x, y) ==
    \/ x.seq > y.seq
    \/ x.seq = y.seq /\ AuthorGreater(x.author, y.author)

RECURSIVE IsDescendant(_, _, _)

\* the op at position k descends from the op at position a (origin links)
IsDescendant(ops, k, a) ==
    IF k <= 1 \/ k <= a THEN FALSE
    ELSE find_idx(ops, ops[k].origin) = a
            \/ IsDescendant(ops, find_idx(ops, ops[k].origin), a)

SiblingOrder(ops) ==
    \A i, j \in 2..Len(ops) :
        (/\ i < j
         /\ ops[i].origin = ops[j].origin
         /\ <<ops[i].seq, ops[i].author>> # <<ops[j].seq, ops[j].author>>)
            => SiblingFirst(ops[i], ops[j])

\* every op comes after its origin, with only descendants of the origin
\* between the two
DescendantsFollow(ops) ==
    \A i \in 2..Len(ops) :
        /\ find_idx(ops, ops[i].origin) \in 1..(i - 1)
        /\ \A k \in (find_idx(ops, ops[i].origin) + 1)..(i - 1) :
               IsDescendant(ops, k, find_idx(ops, ops[i].origin))

\* C12: in every list, of two inserts with the same origin the one with the
\* greater seq comes first, at equal seq the one with the greater author id,
\* and each op is followed by its own descendants.
C12_SiblingOrder ==
    \A p \in Peers :
        SiblingOrder(lists[p].ops) /\ DescendantsFollow(lists[p].ops)

\* both replicas hold two inserts after ROOT with equal seq by the two
\* authors, the one of the greater author first, and that one has a child
\* between them
C12_Witness ==
    /\ Ids(lists[1]) = Ids(lists[2])
    /\ Len(lists[1].ops) = 4
    /\ lists[1].ops[2].origin = ROOT_ID
    /\ lists[1].ops[4].origin = ROOT_ID
    /\ lists[1].ops[2].seq = lists[1].ops[4].seq
    /\ AuthorGreater(lists[1].ops[2].author, lists[1].ops[4].author)
    /\ lists[1].ops[3].origin = lists[1].ops[2].id

\* C18: two list replicas that integrated the same set of insert ops with
\* valid hashes hold their ops in the same sequence.
C18_TotalOrder ==
    (/\ seen[1] = seen[2]
     /\ \A o \in seen[1] : is_valid_hash(o) /\ ~o.is_deleted)
        => Ids(lists[1]) = Ids(lists[2])

\* the step is a call of peer p's apply with op o, which came from elsewhere
Received(p, o) ==
    /\ o \notin seen[p]
    /\ seen' = [seen EXCEPT ![p] = @ \cup {o}]
    /\ net' = net

\* no op is parked on an id the list holds, and every op the list was passed
\* whose origin it holds has taken effect
NothingLeftParked(l, S) ==
    /\ \A k \in DOMAIN l.message_q : find_idx(l.ops, k) = 0
    /\ \A o \in S :
           find_idx(l.ops, o.origin) # 0 =>
               IF o.is_deleted
               THEN l.ops[find_idx(l.ops, o.origin)].is_deleted
               ELSE find_idx(l.ops, o.id) # 0

\* C20: apply of an insert or a delete whose origin the list does not hold
\* returns MissingCausalDependencies, leaves ops as they were and keeps the
\* op in the queue of that origin; after every step, no op is parked on an id
\* the list holds and every op whose origin has arrived is integrated.
C20_ListParking ==
    [][\A p \in Peers :
          /\ \A o \in net \cup forged :
                 (Received(p, o) /\ find_idx(lists[p].ops, o.origin) = 0) =>
                     /\ o \in deferred'[p]
                     /\ lists'[p].ops = lists[p].ops
                     /\ \E q \in Range(QTake(lists'[p].message_q, o.origin)) :
                            q.id = o.id
          /\ NothingLeftParked(lists'[p], seen'[p])]_vars

\* a replica was passed a chain of two ops before the op the chain hangs
\* from; both were parked, and both are in the list now
C20_Witness ==
    \E p \in Peers :
        \E o1, o2 \in deferred[p] :
            /\ o2.origin = o1.id
            /\ find_idx(lists[p].ops, o1.id) # 0
            /\ find_idx(lists[p].ops, o2.id) # 0
            /\ DOMAIN lists[p].message_q = {}

---------------------------------------------------------------------------
(* Properties of one node (SpecNode) *)

\* the call a step has just made
Made == Last(calls')

\* the op reaches a register or a list as an op for that node itself, with
\* the id Op::new computes
ForThisNode(n, o) ==
    /\ n.k \in {"reg", "list"}
    /\ hash_to_id(o) = o.id
    /\ Len(o.path) = Len(n.path) + 1

\* the content of o cannot be coerced to the element type of n
WrongType(n, o) ==
    /\ IsSome(o.content)
    /\ NodeFrom(n.t, Unwrap(o.content), o.id, o.path) = Err

\* C21: an op whose content cannot be coerced to the element type of the
\* register or list it is applied to is answered with ErrMismatchedType and
\* leaves the view of that node as it was.
C21_WrongTypeRejected ==
    [][(/\ Made.call \in {"apply", "set"}
        /\ ForThisNode(crdt, Made.op)
        /\ ~Made.op.is_deleted
        /\ WrongType(crdt, Made.op))
          => /\ Made.status = "ErrMismatchedType"
             /\ View(crdt') = View(crdt)]_vars

\* content.is_some() XOR is_deleted
ContentXorDeleted(o) == IsSome(o.content) # o.is_deleted

\* C22: is_valid_hash is false for every op that has neither content nor
\* the deleted flag and for every op that has both, whatever its id, and
\* apply with such an op leaves a register or a list as it was.
C22_HashEnforcesXor ==
    [][(/\ Made.call = "apply"
        /\ crdt.k \in {"reg", "list"}
        /\ ~ContentXorDeleted(Made.op))
          => /\ ~is_valid_hash(Made.op)
             /\ Made.status = "ErrHashMismatch"
             /\ crdt' = crdt]_vars

\* a delete, local or remote, aimed at the sentinel of the list
TargetsRoot(c) ==
    /\ c.call \in {"apply", "delete"}
    /\ ForThisNode(crdt, c.op)
    /\ c.op.is_deleted
    /\ c.op.origin = ROOT_ID

\* C23: a delete whose origin is ROOT_ID returns ErrListApplyToEmpty, and
\* the first op of a list is always the root, not deleted.
C23_RootProtected ==
    [][crdt.k = "list"
          => /\ TargetsRoot(Made) => Made.status = "ErrListApplyToEmpty"
             /\ crdt'.ops[1].id = ROOT_ID
             /\ ~crdt'.ops[1].is_deleted]_vars

\* the ops the owner of the node created so far, in creation order
Created(cs) ==
    SelectSeq(cs, LAMBDA c : c.call # "apply" /\ c.status # "Panic")

\* C24: every op the owner creates with set, insert, insert_idx or delete
\* has a seq greater than that of every op it created before in this node,
\* whatever ops apply received in between.
C24_SeqIncreases ==
    [][(Made.call # "apply" /\ Made.status # "Panic")
          => \A k \in 1..Len(Created(calls)) :
                Created(calls)[k].op.seq < Made.op.seq]_vars

\* the payloads view() shows, in order
Elems(ops) == ViewOps(ops, 1)

\* crdt held `before`; the op of the call has been put right after
\* position p and shows in view() right after what ops 1..p show
PutAfter(before, p) ==
    /\ crdt'.ops = InsertAt(before, p + 1,
                            [crdt'.ops[p + 1] EXCEPT !.id = Made.op.id])
    /\ Elems(crdt'.ops) =
          InsertAt(Elems(before), Len(Elems(SubSeq(before, 1, p))) + 1,
                   Unwrap(Made.op.content))

\* C25: the originator sees its own mutation at once: after set(v) with v
\* of the register's type view() is v; after insert(after, v) with `after`
\* in the list v shows directly after the anchor, before every earlier
\* sibling; after delete(id) with id in the list that element is not shown.
C25_LocalMutationObserved ==
    [][/\ (Made.call = "set" /\ ~WrongType(crdt, Made.op))
             => View(crdt') = Unwrap(Made.op.content)
       /\ Made.call = "insert"
             => PutAfter(crdt.ops, find_idx(crdt.ops, Made.op.origin))
       /\ Made.call = "delete"
             => /\ crdt'.ops[find_idx(crdt.ops, Made.op.origin)].is_deleted
                /\ Elems(crdt'.ops) =
                      Elems(Without(crdt.ops,
                                    find_idx(crdt.ops, Made.op.origin)))]_vars

\* C26: insert_idx(i, v) on a list whose view() has n elements makes v the
\* element at index i of view() and keeps the others in their order if
\* i <= n, whatever tombstones the list holds, and halts the caller if i > n.
C26_InsertIdxLive ==
    [][Made.call = "insert_idx"
          => IF Made.arg[1] <= Len(Elems(crdt.ops))
             THEN /\ Made.status # "Panic"
                  /\ Elems(crdt'.ops) =
                        InsertAt(Elems(crdt.ops), Made.arg[1] + 1,
                                 Unwrap(Made.op.content))
             ELSE Made.status = "Panic"]_vars

\* the position in ops of the element view() shows at index i (from 0)
ShownAt(ops, i) ==
    CHOOSE p \in 1..Len(ops) :
        /\ ~ops[p].is_deleted /\ IsSome(ops[p].content)
        /\ Len(Elems(SubSeq(ops, 1, p))) = i + 1

\* C27: id_at(i) is the id of the element that view() shows at index i, and
\* None when view() has no index i.
C27_IdAtLive ==
    crdt.k = "list"
       => \A i \in 0..Len(crdt.ops) :
             id_at(crdt, i) = IF i < Len(Elems(crdt.ops))
                              THEN Some(crdt.ops[ShownAt(crdt.ops, i)].id)
                              ELSE None

\* path a followed by at least one more segment gives path b
Extends(a, b) == Len(a) < Len(b) /\ SubSeq(b, 1, Len(a)) = a

\* the field of record n that the path of op o names next, if it is one
NextField(n, o) ==
    IF /\ Extends(n.path, o.path)
       /\ o.path[Len(n.path) + 1][1] = "Field"
       /\ o.path[Len(n.path) + 1][2] \in FieldNames(n.t)
    THEN Some(o.path[Len(n.path) + 1][2])
    ELSE None

\* record n has passed the op of the call to field f alone and returned
\* what the field returned
Dispatched(n, f) ==
    /\ Made.status = Apply(n.fields[f], Made.op).status
    /\ crdt'.fields[f] = Apply(n.fields[f], Made.op).node
    /\ \A g \in FieldNames(n.t) \ {f} : crdt'.fields[g] = n.fields[g]

\* C28: apply of a record returns ErrApplyOnStruct for an op at the record's
\* own path, ErrPathMismatch for an op whose path does not extend the
\* record's or does not go on with a declared field, and leaves the record
\* as it was; any other op goes to the field it names, and to no other.
C28_RecordRouting ==
    [][(Made.call = "apply" /\ crdt.k = "struct")
          => IF Made.op.path = crdt.path
             THEN Made.status = "ErrApplyOnStruct" /\ crdt' = crdt
             ELSE IF IsNone(NextField(crdt, Made.op))
             THEN Made.status = "ErrPathMismatch" /\ crdt' = crdt
             ELSE Dispatched(crdt, Unwrap(NextField(crdt, Made.op)))]_vars

\* an op at the record's path, one for a field it has not, one for name
C28_Witness ==
    /\ crdt.k = "struct"
    /\ Len(calls) = 3
    /\ calls[1].status = "ErrApplyOnStruct"
    /\ calls[2].status = "ErrPathMismatch"
    /\ calls[2].op.path = join_path(PairPath, Field("nope"))
    /\ calls[3].status = "Ok"
    /\ View(crdt.fields["name"]) = VString(<<"r">>)
    /\ View(crdt.fields["tags"]) = VArray(<<>>)

\* the op of the call leads into an element of list n that holds a primitive
IntoPrimitiveElement(n, o) ==
    /\ n.k = "list"
    /\ hash_to_id(o) = o.id
    /\ Len(o.path) = Len(n.path) + 2
    /\ SubSeq(o.path, 1, Len(n.path)) = n.path
    /\ \E p \in 1..Len(n.ops) :
          /\ o.path[Len(n.path) + 1] = Index(n.ops[p].id)
          /\ IsSome(n.ops[p].content)
          /\ Unwrap(n.ops[p].content).k = "prim"

\* C30: apply on a primitive, called directly or through the list element
\* that holds it, returns ErrApplyOnPrimitive and changes neither the
\* primitive nor the list.
C30_PrimitiveRejectsOps ==
    [][(/\ Made.call = "apply"
        /\ crdt.k = "prim" \/ IntoPrimitiveElement(crdt, Made.op))
          => Made.status = "ErrApplyOnPrimitive" /\ crdt' = crdt]_vars

\* a list of char with an element, and an op sent past that element
C30_Witness ==
    /\ crdt.k = "list"
    /\ Len(calls) = 2
    /\ calls[1].call = "insert"
    /\ calls[2].call = "apply"
    /\ calls[2].op.path = <<Index(calls[1].op.id), Index(ROOT_ID)>>
    /\ calls[2].status = "ErrApplyOnPrimitive"
    /\ View(crdt) = VArray(<<VString(<<"a">>)>>)

---------------------------------------------------------------------------
(* Properties of the replica (Spec), continued *)

\* list `after` holds every op of list `before`, and no live op under the
\* id of an op that `before` holds deleted
KeepsOps(before, after) ==
    /\ Len(after) >= Len(before)
    /\ \A i \in 1..Len(before) :
          /\ \E j \in 1..Len(after) : after[j].id = before[i].id
          /\ before[i].is_deleted
                => \A j \in 1..Len(after) :
                      after[j].id = before[i].id => after[j].is_deleted

\* C29: no call of apply removes an op from a list of the document, makes a
\* deleted element live again or removes a digest from the received set.
C29_OpsAndTombstonesStay ==
    [][/\ \A f \in {"list", "inv"} :
             KeepsOps(base.doc.fields[f].ops, base'.doc.fields[f].ops)
       /\ base.received \subseteq base'.received]_vars

\* insert of 'a', its delete, and the insert again: 'a' stays deleted
C29_Witness ==
    /\ hist = <<6, 8, 6>>
    /\ results = <<"Ok", "Ok", "Ok">>
    /\ Len(base.doc.fields["list"].ops) = 2
    /\ base.doc.fields["list"].ops[2].id = E_A.inner.id
    /\ base.doc.fields["list"].ops[2].is_deleted
    /\ Cardinality(base.received) = 2

---------------------------------------------------------------------------
(* Lists: tombstones as anchors, structure *)

\* the inserts that peer p took whose origin its list holds deleted
OnTombstone(p) ==
    {o \in seen[p] :
        /\ ~o.is_deleted
        /\ find_idx(lists[p].ops, o.origin) # 0
        /\ lists[p].ops[find_idx(lists[p].ops, o.origin)].is_deleted}

\* the insert o is in the list of peer p, and shown unless p took a delete
\* of o itself
IntegratedAndVisible(p, o) ==
    /\ find_idx(lists[p].ops, o.id) # 0
    /\ lists[p].ops[find_idx(lists[p].ops, o.id)].is_deleted
          <=> \E d \in seen[p] : d.is_deleted /\ d.origin = o.id

\* C31: an insert whose origin is deleted is integrated and visible, in
\* whichever order the replica took the insert and the delete, and two
\* replicas that took the same ops of the peers, such an insert among them,
\* have equal view().
C31_TombstoneAnchors ==
    /\ \A p \in Peers : \A o \in OnTombstone(p) : IntegratedAndVisible(p, o)
    /\ (seen[1] = seen[2] /\ seen[1] \subseteq net /\ OnTombstone(1) # {})
          => ListView(lists[1]) = ListView(lists[2])

\* 'a', its delete and 'b' anchored at 'a', taken by both replicas: "b"
C31_Witness ==
    /\ seen[1] = seen[2]
    /\ seen[1] = net
    /\ \E a, b, d \in net :
          /\ net = {a, b, d}
          /\ a.origin = ROOT_ID /\ ~a.is_deleted
          /\ b.origin = a.id /\ ~b.is_deleted
          /\ d.origin = a.id /\ d.is_deleted
          /\ \A p \in Peers :
                /\ b \in OnTombstone(p)
                /\ ListView(lists[p]) = VArray(<<Unwrap(b.content)>>)

---------------------------------------------------------------------------
(* Properties of one node (SpecNode), continued *)

\* an op of an earlier call that the node took as an op for itself: one that
\* was applied to the register or integrated into the list as an element
TakenBefore(k) ==
    /\ calls[k].status = "Ok"
    /\ ForThisNode(crdt, calls[k].op)
    /\ ~calls[k].op.is_deleted

\* C38: whatever seq the ops that the node took carried, the next set or
\* insert of the owner computes our_seq + 1 without overflow, and its op is
\* newer than every op taken so far.
C38_SeqNeverWraps ==
    [][Made.call \in {"set", "insert"}
          => /\ Made.status # "Panic"
             /\ Made.op.seq = crdt.our_seq + 1
             /\ \A k \in 1..Len(calls) :
                   TakenBefore(k) => calls[k].op.seq < Made.op.seq]_vars

\* the id of the list element that the path of o names after the path of n
NextIndex(n, o) == o.path[Len(n.path) + 1][2]

\* o is a well-formed op that goes through Index(id) into an element that
\* list n does not hold
IntoMissingElement(n, o) ==
    /\ n.k = "list"
    /\ is_valid_hash(o)
    /\ ensure_subpath(n.path, o.path)
    /\ Len(o.path) > Len(n.path) + 1
    /\ o.path[Len(n.path) + 1][1] = "Index"
    /\ find_idx(n.ops, NextIndex(n, o)) = 0

\* call k was an op into the element with this id when the list did not
\* hold it
DroppedFor(k, id) ==
    /\ calls[k].call = "apply"
    /\ calls[k].status = "ErrPathMismatch"
    /\ Len(calls[k].op.path) > Len(crdt.path) + 1
    /\ calls[k].op.path[Len(crdt.path) + 1] = Index(id)

\* C32: an op that goes through Index(id) into an element the list does not
\* hold returns ErrPathMismatch and leaves the list, its queue included, as
\* it was; when the element with that id is inserted later it is the element
\* its own op makes, the dropped op is not applied to it.
C32_MissingElementDropped ==
    [][/\ (Made.call = "apply" /\ IntoMissingElement(crdt, Made.op))
             => /\ Made.status = "ErrPathMismatch"
                /\ crdt' = crdt
       /\ (/\ Made.call = "apply"
           /\ Made.status = "Ok"
           /\ crdt.k = "list"
           /\ ForThisNode(crdt, Made.op)
           /\ ~Made.op.is_deleted
           /\ find_idx(crdt.ops, Made.op.id) = 0
           /\ \E k \in 1..Len(calls) : DroppedFor(k, Made.op.id))
             => crdt'.ops[find_idx(crdt'.ops, Made.op.id)].content
                   = Into(crdt.t, Made.op)[2].content]_vars

\* a list of registers is sent an op for the register of an element it does
\* not hold yet, then the insert of that element: the register is new, with
\* the one op of its creation
C32_Witness ==
    /\ crdt.k = "list"
    /\ crdt.t = TReg(TChar)
    /\ Len(calls) = 2
    /\ calls[1].call = "apply"
    /\ calls[1].op.path = <<Index(FutureId), Index(ROOT_ID)>>
    /\ calls[1].status = "ErrPathMismatch"
    /\ calls[2].call = "apply"
    /\ calls[2].op.id = FutureId
    /\ calls[2].status = "Ok"
    /\ find_idx(crdt.ops, FutureId) # 0
    /\ Unwrap(crdt.ops[find_idx(crdt.ops, FutureId)].content).our_seq = 1
    /\ crdt.message_q = EmptyQ

\* the state a list holds itself: its ops with the nested CRDT of an element
\* left out, its queue and its counter
ListOwn(l) ==
    <<[i \in 1..Len(l.ops) |->
          [l.ops[i] EXCEPT !.content =
              IF IsNone(@) THEN @
              ELSE IF Unwrap(@).k = "prim" THEN @
              ELSE Some(Unwrap(@).k)]],
      l.message_q, l.our_seq>>

\* the ids of the elements of list l that hold a nested CRDT
NestedIds(l) ==
    {l.ops[i].id : i \in {j \in 1..Len(l.ops) :
                            /\ IsSome(l.ops[j].content)
                            /\ Unwrap(l.ops[j].content).k # "prim"}}

\* the nested CRDT of the element id of list l
NestedAt(l, id) == Unwrap(l.ops[find_idx(l.ops, id)].content)

RECURSIVE Changed(_, _, _)
\* the sub-CRDTs of node a, each named by the fields and element ids that
\* lead to it from a, whose own state in b is not what it is in a or that b
\* no longer holds
Changed(a, b, key) ==
    CASE a.k = "reg" ->
            IF <<a.value, a.our_seq>> # <<b.value, b.our_seq>> THEN {key} ELSE {}
      [] a.k = "list" ->
            (IF ListOwn(a) # ListOwn(b) THEN {key} ELSE {})
              \cup UNION {IF id \in NestedIds(b)
                          THEN Changed(NestedAt(a, id), NestedAt(b, id),
                                       Append(key, id))
                          ELSE {Append(key, id)} : id \in NestedIds(a)}
      [] a.k = "struct" ->
            UNION {Changed(a.fields[f], b.fields[f], Append(key, f)) :
                      f \in FieldNames(a.t)}
      [] OTHER -> IF a # b THEN {key} ELSE {}

\* the path of op o leads from node n through the fields and elements of key
Addresses(n, o, key) ==
    /\ Len(n.path) + Len(key) <= Len(o.path)
    /\ \A i \in 1..Len(key) : o.path[Len(n.path) + i][2] = key[i]

\* C33: applying one op to a tree of CRDTs changes the state of at most one
\* sub-CRDT, one that the path of the op leads to; every other register,
\* list and record field, sibling fields and sibling elements included, is
\* left as it was.
C33_FrameOfApply ==
    [][Made.status # "Panic"
          => /\ Cardinality(Changed(crdt, crdt', <<>>)) <= 1
             /\ \A key \in Changed(crdt, crdt', <<>>) :
                   Addresses(crdt, Made.op, key)]_vars

\* a record whose two fields each took one op
C33_Witness ==
    /\ Len(calls) = 2
    /\ calls[1].call = "apply" /\ calls[1].status = "Ok"
    /\ calls[2].call = "apply" /\ calls[2].status = "Ok"
    /\ crdt.k = "struct"
    /\ Changed(New(PairType, PublicKey(1), PairPath), crdt, <<>>)
          = {<<"name">>, <<"tags">>}

\* o is a well-formed op that goes through Index(id) into the nested CRDT of
\* the element at position p of list n, an element that is deleted
IntoTombstoned(n, o, p) ==
    /\ n.k = "list"
    /\ is_valid_hash(o)
    /\ ensure_subpath(n.path, o.path)
    /\ Len(o.path) > Len(n.path) + 1
    /\ o.path[Len(n.path) + 1][1] = "Index"
    /\ p = find_idx(n.ops, NextIndex(n, o))
    /\ p # 0
    /\ n.ops[p].is_deleted
    /\ IsSome(n.ops[p].content)

\* C37: an op routed into the nested CRDT of a deleted list element is
\* applied to that CRDT and returns its status, and the view() of the list
\* is what it was: the element stays invisible.
C37_TombstoneSubtree ==
    [][\A p \in 0..(IF crdt.k = "list" THEN Len(crdt.ops) ELSE 0) :
          (Made.call = "apply" /\ IntoTombstoned(crdt, Made.op, p))
             => /\ Made.status = Apply(Unwrap(crdt.ops[p].content), Made.op).status
                /\ crdt'.ops[p].content =
                      Some(Apply(Unwrap(crdt.ops[p].content), Made.op).node)
                /\ crdt'.ops[p].is_deleted
                /\ View(crdt') = View(crdt)]_vars

\* a register is inserted and deleted, then takes a remote op: the register
\* holds the remote value and the list shows nothing
C37_Witness ==
    /\ crdt.k = "list"
    /\ crdt.t = TReg(TChar)
    /\ Len(calls) = 3
    /\ calls[1].call = "insert"
    /\ calls[2].call = "delete" /\ calls[2].op.origin = calls[1].op.id
    /\ calls[3].call = "apply" /\ calls[3].status = "Ok"
    /\ calls[3].op.path = <<Index(calls[1].op.id), Index(ROOT_ID)>>
    /\ View(NestedAt(crdt, calls[1].op.id)) = VString(<<"r">>)
    /\ View(crdt) = VArray(<<>>)

---------------------------------------------------------------------------
(* Properties of the replica (Spec): the pending queue *)

\* C34: whenever BaseCrdt::apply has returned, no key of the pending queue
\* is a digest of the received set, and every parked envelope names its
\* queue key among its dependencies; so no envelope stays parked on a
\* dependency that has been received.
C34_PendingQueueInvariant ==
    ~halted =>
        \A k \in DOMAIN base.message_q :
            /\ k \notin base.received
            /\ \A e \in Range(base.message_q[k]) : k \in Range(e.depends_on)

\* envelopes are parked while others have been received, and one of the
\* parked envelopes has a dependency that has been received and another
\* that has not
C34_Witness ==
    /\ ~halted
    /\ base.received # {}
    /\ \E k \in DOMAIN base.message_q :
          \E e \in Range(base.message_q[k]) :
              Range(e.depends_on) \cap base.received # {}

\* the number of inner ops this step handed to doc.apply
Handled == Len(applied') - Len(applied)

\* what list l holds: ops integrated and ops parked
ListLoad(l) == Len(l.ops) + QSize(l.message_q)

\* the call of this step returned after a bounded amount of work: every
\* envelope it handled is the one it was called with or one the queue held,
\* each was applied or parked once and no more, and the lists of the
\* document took at most one op for each inner op applied
WorkBounded ==
    /\ ~halted'
    /\ Handled <= 1 + QSize(base.message_q)
    /\ QSize(base'.message_q) + Handled <= QSize(base.message_q) + 1
    /\ \A f \in {"list", "inv"} :
          ListLoad(base'.doc.fields[f]) <= ListLoad(base.doc.fields[f]) + Handled

\* C35: every BaseCrdt::apply call runs to completion: the release of parked
\* envelopes at the root and of parked ops in a list ends for every pending
\* queue, also when an envelope or op is parked several times or comes
\* again after it was applied.
C35_ApplyCompletes ==
    [][\A i \in 1..Len(Envelopes) : Delivered(i) => WorkBounded]_vars

---------------------------------------------------------------------------
(* Properties of the maps (SpecMap) *)

\* replica r has applied the set o, and the entry of o is in its table,
\* marked deleted
HoldsDeleted(r, o) ==
    /\ o \in map_got[r]
    /\ ~o.is_deleted
    /\ MapFind(maps[r], o.id) = parse_field(o.path)
    /\ maps[r].table[Unwrap(parse_field(o.path))].is_deleted

\* a replica that applies the ops of set S once each, in the order they
\* were made
MapInOrder(S) ==
    MapApplyAll(MapNew(PublicKey(MapChk), <<>>),
                SelectSeq(map_ops, LAMBDA o : o \in S))

\* C39: two MapCRDT replicas that have applied the same set of set and
\* delete ops, in any order, a delete that comes before its target being
\* parked until the target comes, have equal view(); and applying again a
\* set whose entry was deleted does not bring the key back.
C39_MapConvergence ==
    /\ \A r1, r2 \in MapReplicas :
          map_got[r1] = map_got[r2] => MapView(maps[r1]) = MapView(maps[r2])
    /\ \A r \in MapReplicas :
          MapView(maps[r]) = MapView(MapInOrder(map_got[r]))
    /\ \A r \in MapReplicas : \A o \in map_got[r] :
          HoldsDeleted(r, o)
             => Unwrap(parse_field(o.path))
                   \notin DOMAIN MapView(MapApply(maps[r], o))

\* replica 1 set key x and deleted it; replica 3 applied the two and then
\* the set again (its clock for replica 1 is back at the seq of the set):
\* the two hold the entry marked deleted and show the same empty map
C39_Witness ==
    /\ Len(map_ops) = 2
    /\ map_got[1] = Range(map_ops)
    /\ map_got[MapChk] = Range(map_ops)
    /\ maps[MapChk].logical_clocks[PublicKey(1)] = 1
    /\ HoldsDeleted(1, map_ops[1])
    /\ HoldsDeleted(MapChk, map_ops[1])
    /\ maps[MapChk].message_q = EmptyQ
    /\ MapView(maps[MapChk]) = MapView(maps[1])
    /\ DOMAIN MapView(maps[MapChk]) = {}

====
